---- MODULE Spec2Model ----
\* A model of kelindar/iostream: the Writer (writer.go), the Reader (reader.go)
\* and the two byte sources (sliceSource, streamSource).
\*
\* 64-bit machine integers are sequences of four 16-bit limbs, with the shifts,
\* complements, conversions and wrap-around of the Go code.
\* Bytes are the integers 0..255, byte slices are sequences of bytes.
EXTENDS Integers, Sequences, FiniteSets, TLC

\* ------------------------------------------------------------------ bounds

\* The number of typed Write operations of one run.
MaxOps == 2

\* The number of reads of one Reader over a given input.
MaxReads == 2

\* The largest room of a limited sink, in bytes.
MaxLimit == 3

\* ------------------------------------------------------- program constants

\* Width of uint64 / int64 / int / uint (64-bit build).
WordBits == 64

\* Size of the Writer's scratch array.
ScratchLen == 10

\* maxVarintLen64 = 10 * 7: the shift bound of sliceSource.ReadUvarint.
maxVarintLen64 == 70

\* binary.MaxVarintLen64, the byte bound of encoding/binary.ReadUvarint.
MaxVarintLen64 == 10

\* ------------------------------------------------------ 64-bit arithmetic
\* A 64-bit integer is the sequence of its four 16-bit limbs, the lowest first,
\* so that shifts, complements, conversions and wrap-around are what the Go
\* code does on uint64 / int64. SeqOf makes the value of a function expression
\* a plain sequence.

SeqOf(f, n) == SubSeq(f, 1, n)

\* v handed to F, as a local variable is: F(v)
With(v, F(_)) == F(v)

LimbBits == WordBits \div 4

Base == 2^LimbBits

Limbs == 1..4

W4(f) == SeqOf(f, 4)

\* limb j of x, 0 outside the word
Limb(x, j) == IF j \in Limbs THEN x[j] ELSE 0

\* bit k of x, k = 0 .. 63
Bit(x, k) == (x[(k \div LimbBits) + 1] \div (2^(k % LimbBits))) % 2

Zero == W4([i \in Limbs |-> 0])

AllOnes == W4([i \in Limbs |-> Base - 1])

\* 2^k
Pow2(k) == W4([i \in Limbs |-> IF i = (k \div LimbBits) + 1 THEN 2^(k % LimbBits) ELSE 0])

\* uint64(n) of a natural number n that fits TLC's integers
FromNat(n) == <<n % Base, n \div Base, 0, 0>>

\* a word is a small natural number (below 2^30)
IsSmall(x) == x[2] < 2^(30 - LimbBits) /\ x[3] = 0 /\ x[4] = 0

\* the natural number of a small word
ToNat(x) == x[1] + Base * x[2]

\* x << k and x >> k on uint64, k = 0 .. 63
Shl(x, k) ==
    W4([i \in Limbs |->
          (Limb(x, i - (k \div LimbBits)) % (2^(LimbBits - (k % LimbBits)))) * (2^(k % LimbBits))
          + (Limb(x, i - (k \div LimbBits) - 1) \div (2^(LimbBits - (k % LimbBits))))])

Shr(x, k) ==
    W4([i \in Limbs |->
          (Limb(x, i + (k \div LimbBits)) \div (2^(k % LimbBits)))
          + (Limb(x, i + (k \div LimbBits) + 1) % (2^(k % LimbBits))) * (2^(LimbBits - (k % LimbBits)))])

\* a | b and a & b on the low n bits of two limbs
RECURSIVE OrBits(_, _, _)
OrBits(a, b, n) ==
    IF n = 0 THEN 0
    ELSE (IF a % 2 = 1 \/ b % 2 = 1 THEN 1 ELSE 0) + 2 * OrBits(a \div 2, b \div 2, n - 1)

RECURSIVE AndBits(_, _, _)
AndBits(a, b, n) ==
    IF n = 0 THEN 0
    ELSE (IF a % 2 = 1 /\ b % 2 = 1 THEN 1 ELSE 0) + 2 * AndBits(a \div 2, b \div 2, n - 1)

\* x | y, x & y, ^x
Or(x, y) == W4([i \in Limbs |-> OrBits(x[i], y[i], LimbBits)])

And(x, y) == W4([i \in Limbs |-> AndBits(x[i], y[i], LimbBits)])

Not(x) == W4([i \in Limbs |-> Base - 1 - x[i]])

\* x + y modulo 2^64: the limbs from i on, c the carry into limb i
RECURSIVE AddLimbs(_, _, _, _)
AddLimbs(x, y, i, c) ==
    IF i > 4 THEN <<>>
    ELSE <<(x[i] + y[i] + c) % Base>> \o AddLimbs(x, y, i + 1, (x[i] + y[i] + c) \div Base)

Add(x, y) == AddLimbs(x, y, 1, 0)

\* x - 1 and x + 1 modulo 2^64
Dec(x) == Add(x, AllOnes)

Inc(x) == Add(x, FromNat(1))

\* x - y modulo 2^64
Sub(x, y) == Add(x, Inc(Not(y)))

\* 2^k - 1 (k = 64: the maximum uint64)
Ones(k) == IF k = WordBits THEN AllOnes ELSE Dec(Pow2(k))

\* unsigned x < y
ULt(x, y) ==
    \E i \in Limbs : x[i] < y[i] /\ \A j \in (i + 1)..4 : x[j] = y[j]

\* signed (int64) x < 0, x < y, x <= y
IsNeg(x) == Bit(x, WordBits - 1) = 1

SLt(x, y) == IF IsNeg(x) # IsNeg(y) THEN IsNeg(x) ELSE ULt(x, y)

SLe(x, y) == x = y \/ SLt(x, y)

\* byte(x): the low 8 bits
ByteOf(x) == x[1] % 256

\* uint64(b) of a byte b
FromByte(b) == <<b, 0, 0, 0>>

\* uintN(x): x truncated to its low n bits; intN(x): the low n bits sign-extended
Trunc(x, n) == And(x, Ones(n))

SignExt(x, n) == IF Bit(x, n - 1) = 1 THEN Or(Trunc(x, n), Not(Ones(n))) ELSE Trunc(x, n)

\* ------------------------------------------------------------------ sinks

\* Go's min
Min(a, b) == IF a < b THEN a ELSE b

\* A sink is [kind, buffer |-> the bytes it took, value |-> the count of the
\* bytes it was asked to take, limit |-> its room, calls |-> the calls of its
\* own Flush and Close].

\* bytes.Buffer as a sink: Write appends p and returns len(p), nil.
BufferWrite(sink, p) ==
    [sink |-> [sink EXCEPT !.value = @ + Len(p), !.buffer = @ \o p],
     n |-> Len(p), err |-> "nil"]

\* limitWriter.Write: the running count of requested bytes is raised first; once
\* it exceeds Limit the write is rejected whole with io.ErrShortBuffer.
LimitWrite(sink, p) ==
    LET value == sink.value + Len(p)
    IN  IF value > sink.limit
        THEN [sink |-> [sink EXCEPT !.value = value], n |-> 0, err |-> "ErrShortBuffer"]
        ELSE [sink |-> [sink EXCEPT !.value = value, !.buffer = @ \o p],
              n |-> Len(p), err |-> "nil"]

\* An io.Writer with room for sink.limit bytes: it takes what fits and reports
\* the count; kind "short" returns io.ErrShortWrite with a smaller count (the
\* io.Writer contract), kind "silent" returns the smaller count with a nil error.
RoomWrite(sink, p) ==
    LET n == Min(Len(p), sink.limit - Len(sink.buffer))
    IN  [sink |-> [sink EXCEPT !.value = @ + Len(p), !.buffer = @ \o SubSeq(p, 1, n)],
         n |-> n,
         err |-> IF n < Len(p) /\ sink.kind = "short" THEN "ErrShortWrite" ELSE "nil"]

\* w.out.Write(p): the sink's Write, by the dynamic type of the sink.
SinkWrite(sink, p) ==
    CASE sink.kind \in {"buffer", "file"} -> BufferWrite(sink, p)
      [] sink.kind = "limit" -> LimitWrite(sink, p)
      [] OTHER -> RoomWrite(sink, p)

NewSink(kind, limit) ==
    [kind |-> kind, buffer |-> <<>>, value |-> 0, limit |-> limit, calls |-> <<>>]

\* The operations a sink has besides Write, by its dynamic type: bytes.Buffer
\* has neither Flush nor Close, the limitWriter of the tests has Close, and a
\* sink of kind "file" has both.
Supports(sink, op) ==
    CASE sink.kind = "file" -> op \in {"Flush", "Close"}
      [] sink.kind = "limit" -> op = "Close"
      [] OTHER -> FALSE

\* The sink's own Flush or Close. limitWriter.Close returns nil; a file that was
\* closed returns an error from both, an open one nil.
SinkCall(sink, op) ==
    [sink |-> [sink EXCEPT !.calls = Append(@, op)],
     err |-> IF sink.kind = "file" /\ \E i \in 1..Len(sink.calls) : sink.calls[i] = "Close"
             THEN "ErrClosed" ELSE "nil"]

\* ----------------------------------------------------------------- Writer
\* The writer-side operators take and return the writer-side state
\*   st = [w |-> the Writer (out, offset, scratch), sinks |-> the sinks,
\*         reported |-> the sum of the counts the sinks returned since Reset]
\* and an error ("nil" when there is none).

Targets == {"a", "b"}

\* A pointer: the kind of object it designates, the address of the object
\* ("new" for an object just made) and the object itself.
Ptr(type, at, obj) == [type |-> type, at |-> at, obj |-> obj]

\* an io.Writer that is no Writer: the sink of that name
Sink(name) == [type |-> "io.Writer", name |-> name]

\* a variant of NewWriter that makes a Writer of its own whatever it is given
NewWriterAnew(out) ==
    Ptr("Writer", "new",
        [out |-> IF out.type = "Writer" THEN out.obj.out ELSE out.name, offset |-> 0,
         scratch |-> SeqOf([i \in 1..ScratchLen |-> 0], ScratchLen)])

\* NewWriter: a *Writer is returned as it is, any other io.Writer becomes the
\* sink of a new Writer.
NewWriter(out) ==
    IF out.type = "Writer" THEN out
    ELSE Ptr("Writer", "new",
             [out |-> out.name, offset |-> 0,
              scratch |-> SeqOf([i \in 1..ScratchLen |-> 0], ScratchLen)])

\* a variant of Writer.Reset that leaves the sink as it is
ResetOffsetOnly(wr, out) == [wr EXCEPT !.offset = 0]

\* Writer.Reset
Reset(wr, out) == [wr EXCEPT !.out = out, !.offset = 0]

\* a variant of Writer.Close that closes nothing
CloseNothing(st) == [st |-> st, err |-> "nil"]

\* Writer.Flush: the sink's Flush when it has one, a no-op otherwise
Flush(st) ==
    IF Supports(st.sinks[st.w.out], "Flush")
    THEN LET res == SinkCall(st.sinks[st.w.out], "Flush")
         IN  [st |-> [st EXCEPT !.sinks[st.w.out] = res.sink], err |-> res.err]
    ELSE [st |-> st, err |-> "nil"]

\* Writer.Close: the sink's Close when it is an io.Closer, a no-op otherwise
Close(st) ==
    IF Supports(st.sinks[st.w.out], "Close")
    THEN LET res == SinkCall(st.sinks[st.w.out], "Close")
         IN  [st |-> [st EXCEPT !.sinks[st.w.out] = res.sink], err |-> res.err]
    ELSE [st |-> st, err |-> "nil"]

\* a variant of Writer.write that adds len(p) to the offset, whatever the sink
\* reported
writeAll(st, p) ==
    LET res == SinkWrite(st.sinks[st.w.out], p)
    IN  [st |-> [w |-> [st.w EXCEPT !.offset = @ + Len(p)],
                 sinks |-> [st.sinks EXCEPT ![st.w.out] = res.sink],
                 reported |-> st.reported + res.n],
         err |-> res.err]

\* Writer.write: the sink's count is added to the offset
\* and the sink's error is returned.
write(st, p) ==
    LET res == SinkWrite(st.sinks[st.w.out], p)
    IN  [st |-> [w |-> [st.w EXCEPT !.offset = @ + res.n],
                 sinks |-> [st.sinks EXCEPT ![st.w.out] = res.sink],
                 reported |-> st.reported + res.n],
         err |-> res.err]

\* x > 0x80, a variant of the loop condition of WriteUvarint
Ge80Strict(x) == ULt(FromNat(128), x)

\* x >= 0x80
Ge80(x) == ~ULt(x, FromNat(128))

\* byte(x) | 0x80
OrHigh(b) == (b % 128) + 128

\* a variant of the loop that goes on for x > 0x80 only
RECURSIVE UvarintLoopAbove(_, _, _)
UvarintLoopAbove(scratch, x, i) ==
    IF i >= ScratchLen THEN [scratch |-> scratch, i |-> i, fault |-> TRUE]
    ELSE IF ULt(FromNat(128), x)
         THEN UvarintLoopAbove([scratch EXCEPT ![i + 1] = OrHigh(ByteOf(x))], Shr(x, 7), i + 1)
         ELSE [scratch |-> [scratch EXCEPT ![i + 1] = ByteOf(x)], i |-> i, fault |-> FALSE]

\* The loop of WriteUvarint / WriteVarint: fills scratch[0..i]; a write past the
\* end of the array is a fault (index out of range).
RECURSIVE UvarintLoop(_, _, _)
UvarintLoop(scratch, x, i) ==
    IF i >= ScratchLen THEN [scratch |-> scratch, i |-> i, fault |-> TRUE]
    ELSE IF Ge80(x)
         THEN UvarintLoop([scratch EXCEPT ![i + 1] = OrHigh(ByteOf(x))], Shr(x, 7), i + 1)
         ELSE [scratch |-> [scratch EXCEPT ![i + 1] = ByteOf(x)], i |-> i, fault |-> FALSE]

\* the scratch array is stored, then scratch[:i+1] is written
writeScratch(st, loop) ==
    IF loop.fault THEN [st |-> st, err |-> "panic"]
    ELSE write([st EXCEPT !.w.scratch = loop.scratch], SubSeq(loop.scratch, 1, loop.i + 1))

\* Writer.WriteUvarint
WriteUvarint(st, x) == writeScratch(st, UvarintLoop(st.w.scratch, x, 0))

\* a variant of the zigzag mapping without the complement of negative values
ZigZagShift(v) == Shl(v, 1)

\* the zigzag mapping of WriteVarint: x := uint64(v) << 1; if v < 0 { x = ^x }
ZigZag(v) == IF IsNeg(v) THEN Not(Shl(v, 1)) ELSE Shl(v, 1)

\* Writer.WriteVarint
WriteVarint(st, v) == writeScratch(st, UvarintLoop(st.w.scratch, ZigZag(v), 0))

\* a variant of binary.LittleEndian.PutUintN that stores the highest byte first
PutBE(scratch, v, n) ==
    SeqOf([i \in 1..ScratchLen |-> IF i <= n THEN ByteOf(Shr(v, 8 * (n - i))) ELSE scratch[i]],
          ScratchLen)

\* scratch[k] = byte(v >> 8k) for k < n
PutLE(scratch, v, n) ==
    SeqOf([i \in 1..ScratchLen |-> IF i <= n THEN ByteOf(Shr(v, 8 * (i - 1))) ELSE scratch[i]],
          ScratchLen)

\* Writer.WriteUint8 / WriteUint16 / WriteUint32 / WriteUint64, n = 1, 2, 4, 8
writeFixed(st, v, n) ==
    LET scratch == PutLE(st.w.scratch, v, n)
    IN  write([st EXCEPT !.w.scratch = scratch], SubSeq(scratch, 1, n))

WriteUint8(st, v) == writeFixed(st, v, 1)

WriteUint16(st, v) == writeFixed(st, v, 2)

WriteUint32(st, v) == writeFixed(st, v, 4)

WriteUint64(st, v) == writeFixed(st, v, 8)

\* Writer.WriteUint, WriteInt: the 8-byte form of uint64(v)
WriteUint(st, v) == WriteUint64(st, v)

WriteInt(st, v) == WriteUint64(st, v)

\* Writer.WriteInt8 .. WriteInt64: the unsigned form of uintN(v)
WriteInt8(st, v) == WriteUint8(st, Trunc(v, 8))

WriteInt16(st, v) == WriteUint16(st, Trunc(v, 16))

WriteInt32(st, v) == WriteUint32(st, Trunc(v, 32))

WriteInt64(st, v) == WriteUint64(st, v)

\* Writer.WriteBool
WriteBool(st, v) ==
    LET scratch == [st.w.scratch EXCEPT ![1] = IF v THEN 1 ELSE 0]
    IN  write([st EXCEPT !.w.scratch = scratch], SubSeq(scratch, 1, 1))

\* a variant of Writer.WriteBytes with the length as one byte
WriteBytesByteLen(st, v) ==
    LET r == write(st, <<Len(v) % 256>>)
    IN  IF r.err # "nil" THEN r ELSE write(r.st, v)

\* Writer.WriteBytes: the length as a uvarint, then the bytes
WriteBytes(st, v) ==
    LET r == WriteUvarint(st, FromNat(Len(v)))
    IN  IF r.err # "nil" THEN r ELSE write(r.st, v)

\* toBytes: the bytes of a string, a text being the sequence of its bytes
toBytes(v) == v

\* a variant of Writer.WriteString without the length prefix
WriteStringBare(st, v) == write(st, toBytes(v))

\* Writer.WriteString
WriteString(st, v) ==
    LET r == WriteUvarint(st, FromNat(Len(v)))
    IN  IF r.err # "nil" THEN r ELSE write(r.st, toBytes(v))

\* A typed write is [op |-> its name, val |-> its argument]; the argument of a
\* sequence write is the sequence of its elements, the argument of WriteRange
\* the sequence of the typed writes its callback performs, one per index.
ElemOp(op) ==
    CASE op = "Uint8s" -> "Uint8"
      [] op = "Uint16s" -> "Uint16"
      [] op = "Int8s" -> "Int8"
      [] op = "Strings" -> "String"
      [] OTHER -> "None"

RECURSIVE WriteOp(_, _)
RECURSIVE WriteRange(_, _, _, _)
RECURSIVE WriteRangeOn(_, _, _, _)

\* a variant of Writer.WriteRange that goes on after a failure and returns the
\* error of its last step
WriteRangeOn(st, length, elems, i) ==
    With(IF i = 0 THEN WriteUvarint(st, FromNat(length)) ELSE WriteOp(st, elems[i]), LAMBDA r :
        IF i >= length
        THEN [st |-> r.st, err |-> r.err, trace |-> <<[step |-> i, err |-> r.err]>>]
        ELSE With(WriteRangeOn(r.st, length, elems, i + 1), LAMBDA q :
                 [q EXCEPT !.trace = <<[step |-> i, err |-> r.err]>> \o @]))

\* Writer.WriteRange: the count, then fn(i, w) for i = 0 .. length-1, stopping
\* at the first error. elems[i + 1] is what fn(i, w) writes. The trace is the
\* steps taken with the error of each: step 0 the write of the count, step
\* i + 1 the call fn(i, w).
WriteRange(st, length, elems, i) ==
    With(IF i = 0 THEN WriteUvarint(st, FromNat(length)) ELSE WriteOp(st, elems[i]), LAMBDA r :
        IF r.err # "nil" \/ i >= length
        THEN [st |-> r.st, err |-> r.err, trace |-> <<[step |-> i, err |-> r.err]>>]
        ELSE With(WriteRange(r.st, length, elems, i + 1), LAMBDA q :
                 [q EXCEPT !.trace = <<[step |-> i, err |-> r.err]>> \o @]))

\* person.WriteTo (the self-describing type of the tests): NewWriter(dst) is dst
\* itself, a *Writer, and the name is written as a string.
WriteSelf(st, name) == WriteString(st, name)

\* a variant of Writer.WriteBinary that writes what the marshal function
\* returned whether it failed or not
WriteBinaryAnyway(st, v) ==
    LET r == WriteBytes(st, v.out)
    IN  IF v.err = "nil" THEN r ELSE [r EXCEPT !.err = v.err]

\* Writer.WriteBinary / WriteText: v is what the marshal function returns, its
\* bytes v.out and its error v.err
WriteBinary(st, v) == IF v.err = "nil" THEN WriteBytes(st, v.out) ELSE [st |-> st, err |-> v.err]

WriteText(st, v) == IF v.err = "nil" THEN WriteBytes(st, v.out) ELSE [st |-> st, err |-> v.err]

\* Writer.Write: the sink's count is added to the offset and returned with the
\* sink's error
WriteRaw(st, p) ==
    LET res == SinkWrite(st.sinks[st.w.out], p)
    IN  [st |-> [w |-> [st.w EXCEPT !.offset = @ + res.n],
                 sinks |-> [st.sinks EXCEPT ![st.w.out] = res.sink],
                 reported |-> st.reported + res.n],
         n |-> res.n, err |-> res.err]

WriteOp(st, o) ==
    CASE o.op = "Uvarint" -> WriteUvarint(st, o.val)
      [] o.op = "Varint" -> WriteVarint(st, o.val)
      [] o.op = "Uint8" -> WriteUint8(st, o.val)
      [] o.op = "Uint16" -> WriteUint16(st, o.val)
      [] o.op = "Uint32" -> WriteUint32(st, o.val)
      [] o.op = "Uint64" -> WriteUint64(st, o.val)
      [] o.op = "Uint" -> WriteUint(st, o.val)
      [] o.op = "Int8" -> WriteInt8(st, o.val)
      [] o.op = "Int16" -> WriteInt16(st, o.val)
      [] o.op = "Int32" -> WriteInt32(st, o.val)
      [] o.op = "Int64" -> WriteInt64(st, o.val)
      [] o.op = "Int" -> WriteInt(st, o.val)
      [] o.op = "Bool" -> WriteBool(st, o.val)
      [] o.op = "Bytes" -> WriteBytes(st, o.val)
      [] o.op = "String" -> WriteString(st, o.val)
      [] o.op = "Self" -> WriteSelf(st, o.val)
      [] o.op = "Binary" -> WriteBinary(st, o.val)
      [] o.op = "Text" -> WriteText(st, o.val)
      [] o.op = "Write" -> WriteRaw(st, o.val)
      [] o.op = "Range" -> WriteRange(st, Len(o.val), o.val, 0)
      [] OTHER -> WriteRange(st, Len(o.val),
                             SeqOf([k \in 1..Len(o.val) |-> [op |-> ElemOp(o.op), val |-> o.val[k]]],
                                   Len(o.val)), 0)

\* ----------------------------------------------------------------- sources
\* A source is one record for both variants:
\*   kind     "slice" (sliceSource) or "stream" (streamSource)
\*   buffer   sliceSource.buffer
\*   offset   sliceSource.offset, an int64; for a streamSource the count of the
\*            bytes its operations took
\*   sup      the bytes the supplier of a streamSource has not handed out yet
\*   chunk    the most bytes the supplier hands out in one Read
\*   wrapped  the supplier has no ReadByte and is read through a bufio.Reader
\*   bufd     the bytes the bufio.Reader holds, berr its pending error
\*   scratch  streamSource.scratch: its length len, an int, and bytes, its
\*            first bytes; the bytes after them are zero
\*   fault    an operation on the source raised a run-time panic
\* A read returns [src |-> the source after it, val |-> its value, err |-> its
\* error]. The requested size of a read is a 64-bit int.

\* Size of the buffer of bufio.NewReader.
BufSize == 4096

\* make() panics (len out of range) beyond 2^48 bytes on a 64-bit build.
MaxAllocBits == 48

\* a nil scratch buffer
NoScratch == [len |-> Zero, bytes |-> <<>>]

\* newSliceSource
newSliceSource(b) ==
    [kind |-> "slice", buffer |-> b, offset |-> Zero, sup |-> <<>>, chunk |-> 0,
     wrapped |-> FALSE, bufd |-> <<>>, berr |-> "nil", scratch |-> NoScratch, fault |-> FALSE]

\* newStreamSource: a supplier that is an io.ByteReader is used as it is, any
\* other is wrapped in a bufio.Reader.
newStreamSource(data, chunk, hasByteReader) ==
    [kind |-> "stream", buffer |-> <<>>, offset |-> Zero, sup |-> data, chunk |-> chunk,
     wrapped |-> ~hasByteReader, bufd |-> <<>>, berr |-> "nil", scratch |-> NoScratch,
     fault |-> FALSE]

\* The supplier of newSource(r): a *bytes.Buffer (its unread bytes become the
\* backing slice: v.Bytes() takes nothing out of the buffer, whose unread bytes
\* stay in sup, which no operation of a sliceSource reaches), nothing at all,
\* a source, which is returned as it is (a *sliceSource by its case, a
\* streamSource by the test of the default case), or an incremental supplier.
newSource(r) ==
    CASE r.type = "nil" -> Ptr("sliceSource", "new", newSliceSource(<<>>))
      [] r.type = "bytes.Buffer" ->
            Ptr("sliceSource", "new", [newSliceSource(r.data) EXCEPT !.sup = r.data])
      [] r.type \in {"sliceSource", "streamSource"} -> r
      [] OTHER -> Ptr("streamSource", "new",
                      newStreamSource(r.data, r.chunk, r.type = "byteReader"))

Fault(src, val) == [src |-> [src EXCEPT !.fault = TRUE], val |-> val, err |-> "panic"]

\* the number of bytes a read of k bytes gets when avail bytes are there
TakeLen(k, avail) == IF IsSmall(k) THEN Min(ToNat(k), avail) ELSE avail

\* r.offset >= int64(len(r.buffer))
AtEnd(src) == ~SLt(src.offset, FromNat(Len(src.buffer)))

\* sliceSource.Read
SliceRead(src, k) ==
    IF AtEnd(src) THEN [src |-> src, val |-> <<>>, err |-> "EOF"]
    ELSE LET off == ToNat(src.offset)
             n == TakeLen(k, Len(src.buffer) - off)
         IN  [src |-> [src EXCEPT !.offset = Add(@, FromNat(n))],
              val |-> SubSeq(src.buffer, off + 1, off + n), err |-> "nil"]

\* sliceSource.ReadByte
SliceReadByte(src) ==
    IF AtEnd(src) THEN [src |-> src, val |-> 0, err |-> "EOF"]
    ELSE [src |-> [src EXCEPT !.offset = Inc(@)],
          val |-> src.buffer[ToNat(src.offset) + 1], err |-> "nil"]

\* a variant of sliceSource.Slice that clears in the backing buffer the bytes
\* it hands out
SliceSliceClearing(src, n) ==
    With(Add(src.offset, n), LAMBDA end :
        IF SLt(FromNat(Len(src.buffer)), end)
        THEN [src |-> src, val |-> <<>>, err |-> "EOF"]
        ELSE IF SLt(end, src.offset)
             THEN Fault([src EXCEPT !.offset = end], <<>>)
             ELSE [src |-> [src EXCEPT !.offset = end,
                                       !.buffer = [i \in 1..Len(src.buffer) |->
                                                      IF i > ToNat(src.offset) /\ i <= ToNat(end)
                                                      THEN 0 ELSE src.buffer[i]]],
                   val |-> SubSeq(src.buffer, ToNat(src.offset) + 1, ToNat(end)),
                   err |-> "nil", mem |-> "buffer"])

\* sliceSource.Slice: the bound check and the cursor are int64 arithmetic; the
\* slice expression r.buffer[cur:r.offset] panics when r.offset < cur. What it
\* returns is a part of the backing buffer (mem).
SliceSlice(src, n) ==
    With(Add(src.offset, n), LAMBDA end :
        IF SLt(FromNat(Len(src.buffer)), end)
        THEN [src |-> src, val |-> <<>>, err |-> "EOF"]
        ELSE IF SLt(end, src.offset)
             THEN Fault([src EXCEPT !.offset = end], <<>>)
             ELSE [src |-> [src EXCEPT !.offset = end],
                   val |-> SubSeq(src.buffer, ToNat(src.offset) + 1, ToNat(end)),
                   err |-> "nil", mem |-> "buffer"])

\* a variant of the loop of sliceSource.ReadUvarint without the test of the
\* tenth byte
RECURSIVE SliceUvarintLoopAny(_, _, _)
SliceUvarintLoopAny(src, x, s) ==
    IF s >= maxVarintLen64 THEN [src |-> src, val |-> x, err |-> "overflow"]
    ELSE IF ~SLt(src.offset, FromNat(Len(src.buffer)))
    THEN [src |-> src, val |-> Zero, err |-> "EOF"]
    ELSE With([b |-> src.buffer[ToNat(src.offset) + 1],
               next |-> [src EXCEPT !.offset = Inc(@)]], LAMBDA c :
             IF c.b < 128
             THEN [src |-> c.next, val |-> Or(x, Shl(FromByte(c.b), s)), err |-> "nil"]
             ELSE SliceUvarintLoopAny(c.next, Or(x, Shl(FromByte(c.b % 128), s)), s + 7))

\* sliceSource.ReadUvarint: the loop over s = 0, 7, .., 63
RECURSIVE SliceUvarintLoop(_, _, _)
SliceUvarintLoop(src, x, s) ==
    IF s >= maxVarintLen64 THEN [src |-> src, val |-> x, err |-> "overflow"]
    ELSE IF AtEnd(src) THEN [src |-> src, val |-> Zero, err |-> "EOF"]
    ELSE With([b |-> src.buffer[ToNat(src.offset) + 1],
               next |-> [src EXCEPT !.offset = Inc(@)]], LAMBDA c :
             IF c.b < 128
             THEN IF s = maxVarintLen64 - 7 /\ c.b > 1
                  THEN [src |-> c.next, val |-> x, err |-> "overflow"]
                  ELSE [src |-> c.next, val |-> Or(x, Shl(FromByte(c.b), s)), err |-> "nil"]
             ELSE SliceUvarintLoop(c.next, Or(x, Shl(FromByte(c.b % 128), s)), s + 7))

SliceReadUvarint(src) == SliceUvarintLoop(src, Zero, 0)

\* x := int64(ux >> 1); if ux&1 != 0 { x = ^x }
UnZigZag(ux) == IF Bit(ux, 0) = 1 THEN Not(Shr(ux, 1)) ELSE Shr(ux, 1)

\* sliceSource.ReadVarint: the value is unmapped also when there is an error
SliceReadVarint(src) ==
    LET r == SliceReadUvarint(src)
    IN  [r EXCEPT !.val = UnZigZag(@)]

\* --- the streaming source

\* The running count of a streamSource: n more bytes were taken.
Count(r, n) == [r EXCEPT !.src.offset = Add(@, FromNat(n))]

\* Read of the supplier: up to chunk bytes of what is left, io.EOF at the end.
SupRead(src, k) ==
    IF Len(src.sup) = 0 THEN [src |-> src, val |-> <<>>, err |-> "EOF"]
    ELSE LET n == Min(TakeLen(k, Len(src.sup)), src.chunk)
         IN  [src |-> [src EXCEPT !.sup = SubSeq(@, n + 1, Len(@))],
              val |-> SubSeq(src.sup, 1, n), err |-> "nil"]

\* ReadByte of a supplier that is an io.ByteReader
SupReadByte(src) ==
    IF Len(src.sup) = 0 THEN [src |-> src, val |-> 0, err |-> "EOF"]
    ELSE [src |-> [src EXCEPT !.sup = Tail(@)], val |-> Head(src.sup), err |-> "nil"]

\* bufio.Reader.fill, one read of the supplier into the empty buffer
BufFill(src) ==
    With(SupRead(src, FromNat(BufSize)), LAMBDA r :
        [r.src EXCEPT !.bufd = r.val, !.berr = r.err])

\* bufio.Reader.Read: an empty buffer is filled by one read of the supplier (a
\* read of BufSize bytes or more goes to the supplier directly), then what the
\* buffer holds is copied out; the pending error is returned once.
BufRead(src, k) ==
    IF k = Zero
    THEN IF Len(src.bufd) > 0 THEN [src |-> src, val |-> <<>>, err |-> "nil"]
         ELSE [src |-> [src EXCEPT !.berr = "nil"], val |-> <<>>, err |-> src.berr]
    ELSE IF Len(src.bufd) = 0 /\ src.berr # "nil"
    THEN [src |-> [src EXCEPT !.berr = "nil"], val |-> <<>>, err |-> src.berr]
    ELSE IF Len(src.bufd) = 0 /\ ~ULt(k, FromNat(BufSize))
    THEN SupRead(src, k)
    ELSE With(IF Len(src.bufd) = 0 THEN BufFill(src) ELSE src, LAMBDA f :
             IF Len(f.bufd) = 0
             THEN [src |-> [f EXCEPT !.berr = "nil"], val |-> <<>>, err |-> f.berr]
             ELSE With(TakeLen(k, Len(f.bufd)), LAMBDA n :
                  [src |-> [f EXCEPT !.bufd = SubSeq(@, n + 1, Len(@))],
                   val |-> SubSeq(f.bufd, 1, n), err |-> "nil"]))

\* bufio.Reader.ReadByte
BufReadByte(src) ==
    With(IF Len(src.bufd) = 0 /\ src.berr = "nil" THEN BufFill(src) ELSE src, LAMBDA f :
        IF Len(f.bufd) = 0
        THEN [src |-> [f EXCEPT !.berr = "nil"], val |-> 0, err |-> f.berr]
        ELSE [src |-> [f EXCEPT !.bufd = Tail(@)], val |-> Head(f.bufd), err |-> "nil"])

\* streamSource.Read, the embedded io.Reader
StreamRead(src, k) ==
    With(IF src.wrapped THEN BufRead(src, k) ELSE SupRead(src, k), LAMBDA r :
        Count(r, Len(r.val)))

\* streamSource.ReadByte, the embedded io.ByteReader
StreamReadByte(src) ==
    With(IF src.wrapped THEN BufReadByte(src) ELSE SupReadByte(src), LAMBDA r :
        Count(r, IF r.err = "nil" THEN 1 ELSE 0))

\* --- both variants

\* source.Read
SrcRead(src, k) == IF src.kind = "slice" THEN SliceRead(src, k) ELSE StreamRead(src, k)

\* source.ReadByte
SrcReadByte(src) == IF src.kind = "slice" THEN SliceReadByte(src) ELSE StreamReadByte(src)

\* io.ReadAtLeast(r, buf, min) with len(buf) = min: reads until min bytes are
\* there or a read fails; a failure after some bytes is io.ErrUnexpectedEOF.
RECURSIVE ReadAtLeast(_, _, _)
ReadAtLeast(src, min, acc) ==
    IF ~ULt(FromNat(Len(acc)), min) THEN [src |-> src, val |-> acc, err |-> "nil"]
    ELSE With(SrcRead(src, Sub(min, FromNat(Len(acc)))), LAMBDA r :
         With(acc \o r.val, LAMBDA got :
             IF r.err = "nil" THEN ReadAtLeast(r.src, min, got)
             ELSE IF ~ULt(FromNat(Len(got)), min) THEN [src |-> r.src, val |-> got, err |-> "nil"]
             ELSE [src |-> r.src, val |-> got,
                   err |-> IF Len(got) > 0 /\ r.err = "EOF" THEN "ErrUnexpectedEOF" ELSE r.err]))

\* capacityFor: v--, the bits smeared down by 1, 2, 4, 8 and 16, v++
Smear(v, k) == Or(v, Shr(v, k))

capacityFor(v) == Inc(Smear(Smear(Smear(Smear(Smear(Dec(v), 1), 2), 4), 8), 16))

\* make([]T, n) panics when n is negative as an int or beyond the largest
\* allocation; shift is log2 of the size of T
MakeFaults(n, shift) == IsNeg(n) \/ ULt(Pow2(MaxAllocBits - shift), n)

\* the first Len(data) bytes of scratch overwritten by data
Overwrite(scratch, data) ==
    [scratch EXCEPT !.bytes = data \o SubSeq(@, Len(data) + 1, Len(@))]

\* scratch[:n], as far as its first bytes go
Prefix(scratch, n) == SubSeq(scratch.bytes, 1, TakeLen(n, Len(scratch.bytes)))

\* a variant of streamSource.Slice that reads into scratch[:n+1]
StreamSliceOver(src, n) ==
    With(IF SLt(src.scratch.len, n) THEN [len |-> capacityFor(Inc(n)), bytes |-> <<>>]
         ELSE src.scratch, LAMBDA scratch :
    With(ReadAtLeast([src EXCEPT !.scratch = scratch], Inc(n), <<>>), LAMBDA r :
    With(Overwrite(scratch, r.val), LAMBDA filled :
        [src |-> [r.src EXCEPT !.scratch = filled], val |-> Prefix(filled, n), err |-> r.err])))

\* streamSource.Slice: the scratch buffer is made anew when it is shorter than
\* n, then n bytes are read into scratch[:n], which is returned with the error.
\* make panics on a length out of range, scratch[:n] on a negative n. What it
\* returns is a part of the scratch buffer (mem).
StreamSlice(src, n) ==
    With([grow |-> SLt(src.scratch.len, n), cap |-> capacityFor(Inc(n))], LAMBDA c :
        IF c.grow /\ MakeFaults(c.cap, 0) THEN Fault(src, <<>>)
        ELSE IF IsNeg(n) THEN Fault(src, <<>>)
        ELSE With(IF c.grow THEN [len |-> c.cap, bytes |-> <<>>] ELSE src.scratch,
                  LAMBDA scratch :
             With(ReadAtLeast([src EXCEPT !.scratch = scratch], n, <<>>), LAMBDA r :
             With(Overwrite(scratch, r.val), LAMBDA filled :
                 [src |-> [r.src EXCEPT !.scratch = filled],
                  val |-> Prefix(filled, n), err |-> r.err, mem |-> "scratch"]))))

\* encoding/binary.ReadUvarint over the ByteReader of the stream
RECURSIVE StreamUvarintLoop(_, _, _)
StreamUvarintLoop(src, x, i) ==
    IF i >= MaxVarintLen64 THEN [src |-> src, val |-> x, err |-> "overflow"]
    ELSE With(StreamReadByte(src), LAMBDA r :
             IF r.err # "nil"
             THEN [src |-> r.src, val |-> x,
                   err |-> IF i > 0 /\ r.err = "EOF" THEN "ErrUnexpectedEOF" ELSE r.err]
             ELSE IF r.val < 128
             THEN IF i = MaxVarintLen64 - 1 /\ r.val > 1
                  THEN [src |-> r.src, val |-> x, err |-> "overflow"]
                  ELSE [src |-> r.src, val |-> Or(x, Shl(FromByte(r.val), 7 * i)), err |-> "nil"]
             ELSE StreamUvarintLoop(r.src, Or(x, Shl(FromByte(r.val % 128), 7 * i)), i + 1))

\* streamSource.ReadUvarint
StreamReadUvarint(src) == StreamUvarintLoop(src, Zero, 0)

\* streamSource.ReadVarint, encoding/binary.ReadVarint
StreamReadVarint(src) ==
    LET r == StreamReadUvarint(src)
    IN  [r EXCEPT !.val = UnZigZag(@)]

\* source.Slice, source.ReadUvarint, source.ReadVarint
SrcSlice(src, n) == IF src.kind = "slice" THEN SliceSlice(src, n) ELSE StreamSlice(src, n)

SrcReadUvarint(src) ==
    IF src.kind = "slice" THEN SliceReadUvarint(src) ELSE StreamReadUvarint(src)

SrcReadVarint(src) ==
    IF src.kind = "slice" THEN SliceReadVarint(src) ELSE StreamReadVarint(src)

\* source.Offset
SrcOffset(src) == src.offset

\* ----------------------------------------------------------------- Reader
\* A Reader is its source (its scratch array is never used). A typed read is
\* [op |-> its name, elem |-> the read its callback performs (ReadRange), or
\* the length of the buffer handed to Read].

\* a variant of NewReader that makes a Reader with a cursor of its own
\* whatever it is given
NewReaderAnew(r) ==
    IF r.type = "Reader" THEN Ptr("Reader", "new", [r.obj EXCEPT !.offset = Zero])
    ELSE newSource(r)

\* NewReader: a *Reader is returned as it is, over anything else a Reader is
\* made, which is the source newSource selects.
NewReader(r) == IF r.type = "Reader" THEN r ELSE newSource(r)

\* Reader.Offset
Offset(src) == SrcOffset(src)

\* Reader.Read
Read(src, k) == SrcRead(src, k)

\* b[0] | b[1]<<8 | .. | b[n-1]<<8(n-1)
RECURSIVE GetLE(_, _)
GetLE(b, n) == IF n = 0 THEN Zero ELSE Or(GetLE(b, n - 1), Shl(FromByte(b[n]), 8 * (n - 1)))

\* a variant of readFixed whose result is the view that Slice returned
readFixedView(src, n) ==
    With(SrcSlice(src, FromNat(n)), LAMBDA r :
        [r EXCEPT !.val = IF r.err = "nil" THEN r.val ELSE <<>>])

\* Reader.ReadUint16 / ReadUint32 / ReadUint64: Slice(n), assembled when there
\* is no error into a value that is no part of the view
readFixed(src, n) ==
    With(SrcSlice(src, FromNat(n)), LAMBDA r :
        [src |-> r.src, val |-> IF r.err = "nil" THEN GetLE(r.val, n) ELSE Zero,
         err |-> r.err, mem |-> "none"])

\* Reader.ReadUint8
ReadUint8(src) ==
    LET r == SrcReadByte(src)
    IN  [r EXCEPT !.val = FromByte(@)]

ReadUint16(src) == readFixed(src, 2)

ReadUint32(src) == readFixed(src, 4)

ReadUint64(src) == readFixed(src, 8)

\* Reader.ReadUint, ReadInt, ReadInt64: conversions of the same width
ReadUint(src) == ReadUint64(src)

ReadInt64(src) == ReadUint64(src)

ReadInt(src) == ReadInt64(src)

\* Reader.ReadInt8 / ReadInt16 / ReadInt32: intN(u)
ReadInt8(src) ==
    LET r == ReadUint8(src)
    IN  [r EXCEPT !.val = SignExt(@, 8)]

ReadInt16(src) ==
    LET r == ReadUint16(src)
    IN  [r EXCEPT !.val = SignExt(@, 16)]

ReadInt32(src) ==
    LET r == ReadUint32(src)
    IN  [r EXCEPT !.val = SignExt(@, 32)]

\* a variant of Reader.ReadBool that takes every byte but 0 as true
ReadBoolNonZero(src) ==
    LET r == SrcReadByte(src)
    IN  [r EXCEPT !.val = (@ # 0)]

\* Reader.ReadBool
ReadBool(src) ==
    LET r == SrcReadByte(src)
    IN  [r EXCEPT !.val = (@ = 1)]

\* a variant of Reader.ReadBytes with one Read in the place of io.ReadAtLeast
ReadBytesOnce(src) ==
    With(SrcReadUvarint(src), LAMBDA r :
        IF r.err # "nil" THEN [r EXCEPT !.val = <<>>] ELSE SrcRead(r.src, r.val))

\* out = make([]byte, int(size)) filled by the read r: the value lives in a
\* buffer of its own
Made(r) == [src |-> r.src, val |-> r.val, err |-> r.err, mem |-> "own"]

\* a variant of Reader.ReadBytes that returns the bytes as Slice hands them out
ReadBytesShared(src) ==
    With(SrcReadUvarint(src), LAMBDA r :
        IF r.err # "nil" THEN [r EXCEPT !.val = <<>>] ELSE SrcSlice(r.src, r.val))

\* Reader.ReadBytes: the size, a new buffer of int(size) bytes, io.ReadAtLeast
\* into it. val is the part of the buffer that was read.
ReadBytes(src) ==
    With(SrcReadUvarint(src), LAMBDA r :
        IF r.err # "nil" THEN [r EXCEPT !.val = <<>>]
        ELSE IF MakeFaults(r.val, 0) THEN Fault(r.src, <<>>)
        ELSE Made(ReadAtLeast(r.src, r.val, <<>>)))

\* toString: the text of a byte slice
toString(b) == b

\* Reader.ReadString
ReadString(src) ==
    With(ReadBytes(src), LAMBDA r :
        [r EXCEPT !.val = IF r.err = "nil" THEN toString(@) ELSE <<>>])

\* Reader.sliceBytes
sliceBytes(src) ==
    With(SrcReadUvarint(src), LAMBDA r :
        IF r.err # "nil" THEN [r EXCEPT !.val = <<>>] ELSE SrcSlice(r.src, r.val))

\* v.UnmarshalBinary(b) / v.UnmarshalText(b) on the block r.val that sliceBytes
\* returned: fn is the error the unmarshal function returns, val the block it
\* was handed
Unmarshal(r, fn) ==
    [src |-> r.src, val |-> r.val, err |-> fn, mem |-> r.mem, called |-> TRUE]

\* Reader.ReadBinary / ReadText: the unmarshal function is not called when
\* sliceBytes fails
ReadBinary(src, fn) ==
    With(sliceBytes(src), LAMBDA r :
        IF r.err # "nil" THEN [r EXCEPT !.val = <<>>] ELSE Unmarshal(r, fn))

ReadText(src, fn) ==
    With(sliceBytes(src), LAMBDA r :
        IF r.err # "nil" THEN [r EXCEPT !.val = <<>>] ELSE Unmarshal(r, fn))

\* log2 of the size of an element of the slice a sequence read makes
ElemShift(op) ==
    CASE op = "Uint16s" -> 1
      [] op = "Strings" -> 4
      [] OTHER -> 0

RECURSIVE ReadOp(_, _)
RECURSIVE elemLoop(_, _, _, _)

\* for i := 0; i < int(length); i++ { element }: the first error ends the read
\* with no value
elemLoop(src, length, elem, out) ==
    IF ~SLt(FromNat(Len(out)), length) THEN [src |-> src, val |-> out, err |-> "nil"]
    ELSE With(ReadOp(src, [op |-> elem, elem |-> "None"]), LAMBDA r :
             IF r.err # "nil" THEN [r EXCEPT !.val = <<>>]
             ELSE elemLoop(r.src, length, elem, Append(out, r.val)))

\* Reader.ReadUint8s, ReadUint16s, .., ReadStrings: the count, make([]T, length),
\* then the elements
readSeq(src, op) ==
    With(SrcReadUvarint(src), LAMBDA r :
        IF r.err # "nil" THEN [r EXCEPT !.val = <<>>]
        ELSE IF MakeFaults(r.val, ElemShift(op)) THEN Fault(r.src, <<>>)
        ELSE elemLoop(r.src, r.val, ElemOp(op), <<>>))

\* Reader.ReadRange: the count, then fn(i, r) for i < int(length)
ReadRange(src, elem) ==
    With(SrcReadUvarint(src), LAMBDA r :
        IF r.err # "nil" THEN [r EXCEPT !.val = <<>>]
        ELSE elemLoop(r.src, r.val, elem, <<>>))

\* person.ReadFrom through Reader.ReadSelf: NewReader(src) is the Reader itself
\* and the name is read as a string
ReadSelf(src) == ReadString(src)

ReadOp(src, o) ==
    CASE o.op = "Uvarint" -> SrcReadUvarint(src)
      [] o.op = "Varint" -> SrcReadVarint(src)
      [] o.op = "Uint8" -> ReadUint8(src)
      [] o.op = "Uint16" -> ReadUint16(src)
      [] o.op = "Uint32" -> ReadUint32(src)
      [] o.op = "Uint64" -> ReadUint64(src)
      [] o.op = "Uint" -> ReadUint(src)
      [] o.op = "Int8" -> ReadInt8(src)
      [] o.op = "Int16" -> ReadInt16(src)
      [] o.op = "Int32" -> ReadInt32(src)
      [] o.op = "Int64" -> ReadInt64(src)
      [] o.op = "Int" -> ReadInt(src)
      [] o.op = "Bool" -> ReadBool(src)
      [] o.op = "Bytes" -> ReadBytes(src)
      [] o.op = "String" -> ReadString(src)
      [] o.op = "Binary" -> ReadBinary(src, o.elem)
      [] o.op = "Text" -> ReadText(src, o.elem)
      [] o.op = "Read" -> Read(src, FromNat(o.elem))
      [] o.op = "Self" -> ReadSelf(src)
      [] o.op = "Range" -> ReadRange(src, o.elem)
      [] OTHER -> readSeq(src, o.op)

\* ------------------------------------------------------------------ state

VARIABLES
    w,         \* the Writer: out (its sink), offset, scratch
    sinks,     \* the sinks, by name
    reported,  \* the sum of the counts the sinks returned to the Writer since Reset
    wlog,      \* the typed writes made, each with its error and offsets
    phase,     \* "write", then "read" once the input of the Readers is fixed
    input,     \* the bytes the Readers are constructed over
    opened,    \* the Readers constructed
    rd,        \* the source of each Reader
    rlog       \* the reads each Reader made, each with its value, error, offsets
               \* and the bytes it took

vars == <<w, sinks, reported, wlog, phase, input, opened, rd, rlog>>

wvars == <<w, sinks, reported, wlog>>

rvars == <<opened, rd, rlog>>

\* One Reader over the materialized source, one over the streaming source.
Readers == {"slice", "stream"}

\* The suppliers a streaming Reader is constructed over: a supplier with Read
\* alone that hands out all it has (networkSource), one that hands out a byte
\* at a time, and one that is an io.ByteReader as well.
Suppliers ==
    {[type |-> "reader", chunk |-> BufSize],
     [type |-> "reader", chunk |-> 1],
     [type |-> "byteReader", chunk |-> BufSize]}

InitWriter(kind, limit) ==
    /\ w = NewWriter(Sink("a")).obj
    /\ sinks = [t \in Targets |-> NewSink(kind, limit)]
    /\ reported = 0
    /\ wlog = <<>>

InitReaders ==
    /\ opened = {}
    /\ rd = [id \in Readers |-> newSliceSource(<<>>)]
    /\ rlog = [id \in Readers |-> <<>>]

\* the steps of a WriteRange, none for another write
Trace(r) == IF "trace" \in DOMAIN r THEN r.trace ELSE <<>>

\* The state after a typed write o that returned r.
Wrote(o, r) ==
    /\ w' = r.st.w
    /\ sinks' = r.st.sinks
    /\ reported' = r.st.reported
    /\ wlog' = Append(wlog,
           [op |-> o.op, val |-> o.val, err |-> r.err, trace |-> Trace(r),
            from |-> w.offset, to |-> r.st.w.offset,
            req |-> r.st.sinks[w.out].value - sinks[w.out].value,
            acc |-> r.st.reported - reported])

\* A typed write o through the Writer.
DoWrite(o) ==
    /\ phase = "write"
    /\ Wrote(o, WriteOp([w |-> w, sinks |-> sinks, reported |-> reported], o))
    /\ UNCHANGED <<phase, input, opened, rd, rlog>>

\* The first cut bytes of what the sink holds become the input of the Readers.
HandOver(cut) ==
    /\ phase = "write"
    /\ Len(wlog) > 0
    /\ phase' = "read"
    /\ input' = SubSeq(sinks[w.out].buffer, 1, cut)
    /\ UNCHANGED <<w, sinks, reported, wlog, opened, rd, rlog>>

\* NewReader(bytes.NewBuffer(input)): the materialized source.
OpenSlice ==
    /\ phase = "read"
    /\ "slice" \notin opened
    /\ opened' = opened \cup {"slice"}
    /\ rd' = [rd EXCEPT !["slice"] = NewReader([type |-> "bytes.Buffer", data |-> input]).obj]
    /\ UNCHANGED <<w, sinks, reported, wlog, phase, input, rlog>>

\* NewReader over an incremental supplier of the input: the streaming source.
OpenStream(sup) ==
    /\ phase = "read"
    /\ "stream" \notin opened
    /\ opened' = opened \cup {"stream"}
    /\ rd' = [rd EXCEPT !["stream"] =
                 NewReader([type |-> sup.type, data |-> input, chunk |-> sup.chunk]).obj]
    /\ UNCHANGED <<w, sinks, reported, wlog, phase, input, rlog>>

\* The bytes of source a that are gone in its later state b, a 64-bit count:
\* the move of the cursor of a sliceSource, the bytes no longer held by the
\* supplier of a streamSource or by its bufio.Reader.
Taken(a, b) ==
    IF a.kind = "slice" THEN Sub(b.offset, a.offset)
    ELSE FromNat((Len(a.sup) + Len(a.bufd)) - (Len(b.sup) + Len(b.bufd)))

\* The storage the value of a read lives in: "own" (a buffer made for it),
\* "buffer" (the backing slice of a sliceSource), "scratch" (the scratch buffer
\* of a streamSource), "none" for a value that is no byte slice.
Mem(r) == IF "mem" \in DOMAIN r THEN r.mem ELSE "none"

\* whether the read called the unmarshal function
Called(r) == IF "called" \in DOMAIN r THEN r.called ELSE FALSE

\* The state after a typed read o on Reader id that returned r.
Got(id, o, r) ==
    /\ rd' = [rd EXCEPT ![id] = r.src]
    /\ rlog' = [rlog EXCEPT ![id] = Append(@,
           [op |-> o.op, arg |-> o.elem, val |-> r.val, err |-> r.err, mem |-> Mem(r),
            called |-> Called(r),
            from |-> Offset(rd[id]), to |-> Offset(r.src), took |-> Taken(rd[id], r.src)])]

\* The typed read o on Reader id.
DoRead(id, o) ==
    /\ id \in opened
    /\ ~rd[id].fault
    /\ Got(id, o, ReadOp(rd[id], o))
    /\ UNCHANGED <<w, sinks, reported, wlog, phase, input, opened>>

\* The read that corresponds to a typed write; the callback of ReadRange reads
\* what the callback of WriteRange wrote, and the unmarshal function takes what
\* the marshal function gave.
ReadFor(e) ==
    [op |-> e.op,
     elem |-> IF e.op = "Range" /\ Len(e.val) > 0 THEN e.val[1].op
              ELSE IF e.op \in {"Binary", "Text"} THEN "nil" ELSE "Self"]

\* The value the read of a written value is to return.
Written(e) ==
    CASE e.op = "Range" -> SeqOf([k \in 1..Len(e.val) |-> e.val[k].val], Len(e.val))
      [] e.op \in {"Binary", "Text"} -> e.val.out
      [] OTHER -> e.val

\* Reader id reads the next value, in the order of the writes.
ReadNext(id) ==
    /\ Len(rlog[id]) < Len(wlog)
    /\ DoRead(id, ReadFor(wlog[Len(rlog[id]) + 1]))

\* --- the values written

Text(s) == s

\* 0x1111111111111111
Fixture64 == W4([i \in Limbs |-> 4369])

Val(op, v) == [op |-> op, val |-> v]

\* The typed writes of the round trip: every kind of value, with the extreme
\* values of the integers.
RoundTripInputs ==
    {Val("Uvarint", AllOnes), Val("Varint", Pow2(63)), Val("Varint", Not(FromNat(15))),
     Val("Uint8", FromNat(17)), Val("Uint32", Or(Pow2(31), FromNat(4660))),
     Val("Int16", SignExt(FromNat(32769), 16)), Val("Int", Not(FromNat(15))),
     Val("Bool", TRUE), Val("Bytes", <<>>), Val("String", <<104, 105>>),
     Val("Uint16s", <<FromNat(513), FromNat(65535)>>),
     Val("Strings", << <<97>>, <<>> >>),
     Val("Range", <<Val("Self", <<82>>), Val("Self", <<70, 108>>)>>)}

\* ------------------------------------------------- the round trip (Spec)
\* Typed writes into a bytes.Buffer, then a Reader of each variant over the
\* bytes written, each reading the values back in the order of the writes.

Init ==
    /\ InitWriter("buffer", 0)
    /\ InitReaders
    /\ phase = "write"
    /\ input = <<>>

Write ==
    /\ Len(wlog) < MaxOps
    /\ \E o \in RoundTripInputs : DoWrite(o)

Emit == HandOver(Len(sinks[w.out].buffer))

Next ==
    \/ Write
    \/ Emit
    \/ OpenSlice
    \/ \E sup \in Suppliers : OpenStream(sup)
    \/ \E id \in Readers : ReadNext(id)

Spec == Init /\ [][Next]_vars

\* ------------------------------------------- one value, any prefix (SpecValue)
\* One typed write into a bytes.Buffer; any prefix of the bytes written, the
\* whole of them included, is the input of the Readers, which read the value.

\* The unsigned values: the ends of every length of the encoding.
UvarintValues ==
    {Zero, AllOnes, Fixture64, FromNat(1), FromNat(300)}
    \cup {Pow2(k) : k \in {7, 14, 21, 28, 35, 42, 49, 56, 63}}
    \cup {Ones(k) : k \in {7, 14, 21, 28, 35, 42, 49, 56, 63}}

\* The signed values: both signs, the minimum and the maximum.
VarintValues ==
    {Zero, AllOnes, Pow2(63), Ones(63), Fixture64, Not(Fixture64),
     FromNat(1), FromNat(63), FromNat(64), Not(FromNat(63)), Not(FromNat(64)),
     Pow2(62), Not(Pow2(62)), Not(Ones(31))}

ValueInputs ==
    RoundTripInputs
    \cup {Val("Uvarint", x) : x \in UvarintValues}
    \cup {Val("Varint", v) : v \in VarintValues}
    \cup {Val("Uint16", FromNat(513)), Val("Uint64", Fixture64), Val("Uint", AllOnes),
          Val("Int8", Not(FromNat(1))), Val("Int32", Not(Ones(31))), Val("Int64", Pow2(63)),
          Val("Bool", FALSE), Val("Bytes", <<1, 2, 3>>), Val("Self", <<82>>),
          Val("Uint8s", <<FromNat(7)>>), Val("Int8s", <<Not(Zero), FromNat(5)>>),
          Val("Binary", [out |-> <<1, 0, 255>>, err |-> "nil"]),
          Val("Text", [out |-> <<50, 48>>, err |-> "nil"])}

WriteValue ==
    /\ Len(wlog) = 0
    /\ \E o \in ValueInputs : DoWrite(o)

Cut == \E cut \in 0..Len(sinks[w.out].buffer) : HandOver(cut)

NextValue ==
    \/ WriteValue
    \/ Cut
    \/ OpenSlice
    \/ \E sup \in Suppliers : OpenStream(sup)
    \/ \E id \in Readers : ReadNext(id)

SpecValue == Init /\ [][NextValue]_vars

\* ------------------------------------------------ any input (SpecDecode)
\* A Reader of either variant over bytes no Writer need have written, making
\* up to MaxReads typed reads.

Rep9(b) == <<b, b, b, b, b, b, b, b, b>>

\* Ten-byte and longer varints around the overflow rule; length and count
\* prefixes of 2^64-1, 2^64-11, 2^62 and 300 with few bytes or none after them;
\* short well-formed inputs, one of them two blocks of one byte, another a
\* sequence of two strings.
AnyInputs ==
    {Rep9(255) \o <<t>> : t \in {0, 1, 2, 127, 128, 255}}
    \cup {Rep9(128) \o <<1>>, Rep9(128) \o <<2>>,
          <<145, 162, 196, 136, 145, 162, 196, 136, 145, 17>>,
          Rep9(255) \o <<1, 7>>, Rep9(255) \o <<255, 255, 1>>,
          <<245>> \o SubSeq(Rep9(255), 1, 8) \o <<1, 9>>,
          SubSeq(Rep9(128), 1, 8) \o <<64>>,
          <<172, 2, 5>>, <<3, 1>>, <<2, 104, 105>>, <<1, 7, 1, 9>>, <<2, 1, 97, 0>>, <<>>}

Rd(op, elem) == [op |-> op, elem |-> elem]

AnyReads ==
    {Rd("Uvarint", "None"), Rd("Varint", "None"), Rd("Uint16", "None"),
     Rd("Bytes", "None"), Rd("String", "None"), Rd("Binary", "nil"), Rd("Text", "ErrSyntax"),
     Rd("Uint8s", "None"), Rd("Strings", "None"), Rd("Range", "Uint8"), Rd("Read", 3),
     Rd("Read", 0), Rd("Uint8", "None"), Rd("Bool", "None")}

InitDecode ==
    /\ InitWriter("buffer", 0)
    /\ InitReaders
    /\ phase = "read"
    /\ input \in AnyInputs

\* one Reader a run
OpenOneSlice == opened = {} /\ OpenSlice

OpenOneStream == \E sup \in Suppliers : opened = {} /\ OpenStream(sup)

\* NewReader(nil): no supplier at all, so there is no input
OpenNil ==
    /\ opened = {}
    /\ input = <<>>
    /\ opened' = {"slice"}
    /\ rd' = [rd EXCEPT !["slice"] = NewReader([type |-> "nil"]).obj]
    /\ UNCHANGED <<w, sinks, reported, wlog, phase, input, rlog>>

Decode ==
    \E id \in Readers :
        /\ Len(rlog[id]) < MaxReads
        /\ \E o \in AnyReads : DoRead(id, o)

NextDecode ==
    \/ OpenOneSlice
    \/ OpenOneStream
    \/ OpenNil
    \/ Decode

SpecDecode == InitDecode /\ [][NextDecode]_vars

\* ------------------------------------------------- failing sinks (SpecSink)
\* Writes into sinks with room for at most MaxLimit bytes: the limitWriter of
\* the tests, a sink that takes what fits and returns io.ErrShortWrite, and one
\* that takes what fits and returns the smaller count with no error.

SinkKinds == {"limit", "short", "silent"}

SinkInputs ==
    {Val("Uint16", FromNat(513)), Val("Uvarint", FromNat(300)), Val("Bool", TRUE),
     Val("String", <<104, 105>>), Val("Uint64", Fixture64), Val("Write", <<1, 2, 3>>),
     Val("Strings", << <<97>>, <<>> >>),
     Val("Range", <<Val("Self", <<82>>), Val("Binary", [out |-> <<1>>, err |-> "ErrMarshal"]),
                    Val("Self", <<70>>)>>)}

InitSink ==
    /\ \E kind \in SinkKinds : \E limit \in 0..MaxLimit : InitWriter(kind, limit)
    /\ InitReaders
    /\ phase = "write"
    /\ input = <<>>

WriteSink ==
    /\ Len(wlog) < MaxOps
    /\ \E o \in SinkInputs : DoWrite(o)

\* Writer.Reset(out): the count of the reported bytes starts again
ResetWriter ==
    \E out \in Targets :
        /\ Len(wlog) > 0
        /\ w' = Reset(w, out)
        /\ reported' = 0
        /\ UNCHANGED <<sinks, wlog, phase, input, opened, rd, rlog>>

NextSink ==
    \/ WriteSink
    \/ ResetWriter

SpecSink == InitSink /\ [][NextSink]_vars

\* ---------------------------------------------------- Slice alone (SpecSlice)
\* Up to MaxReads calls of Slice on the source of a Reader over a bytes.Buffer,
\* with sizes from 0 to the largest int and negative ones.

\* 0, sizes about the lengths of the inputs, 2^63-1, 2^63-2, -1 and -2^63
SliceSizes ==
    {FromNat(0), FromNat(1), FromNat(2), FromNat(3), FromNat(10), FromNat(11),
     Not(Pow2(63)), Dec(Not(Pow2(63))), AllOnes, Pow2(63)}

\* r.src.Slice(n)
CallSlice ==
    /\ Len(rlog["slice"]) < MaxReads
    /\ "slice" \in opened
    /\ ~rd["slice"].fault
    /\ \E n \in SliceSizes : Got("slice", Rd("Slice", n), SrcSlice(rd["slice"], n))
    /\ UNCHANGED <<w, sinks, reported, wlog, phase, input, opened>>

NextSlice ==
    \/ OpenOneSlice
    \/ CallSlice

SpecSlice == InitDecode /\ [][NextSlice]_vars

\* ------------------------------------------- the scratch buffer (SpecScratch)
\* Up to MaxReads calls of Slice and fixed-width reads on a streaming source
\* over each input; the log has the length of the scratch buffer before and
\* after each call.

\* 0, sizes about powers of two, 2^32, the largest int and -1
ScratchSizes ==
    {FromNat(0), FromNat(1), FromNat(2), FromNat(3), FromNat(4), FromNat(5), FromNat(8),
     Pow2(32), Not(Pow2(63)), AllOnes}

FixedReads == {"Uint16", "Uint32", "Uint64"}

\* The state after the read o on Reader id that returned r.
GotScratch(id, o, r) ==
    /\ rd' = [rd EXCEPT ![id] = r.src]
    /\ rlog' = [rlog EXCEPT ![id] = Append(@,
           [op |-> o.op, arg |-> o.elem, val |-> r.val, err |-> r.err, mem |-> Mem(r),
            called |-> FALSE,
            from |-> Offset(rd[id]), to |-> Offset(r.src), took |-> Taken(rd[id], r.src),
            had |-> rd[id].scratch.len, has |-> r.src.scratch.len])]

ScratchOpen ==
    /\ "stream" \in opened
    /\ ~rd["stream"].fault
    /\ Len(rlog["stream"]) < MaxReads

\* r.src.Slice(n) on the streaming source
SliceStream ==
    /\ ScratchOpen
    /\ \E n \in ScratchSizes :
          GotScratch("stream", Rd("Slice", n), SrcSlice(rd["stream"], n))
    /\ UNCHANGED <<w, sinks, reported, wlog, phase, input, opened>>

\* ReadUint16, ReadUint32, ReadUint64 on the streaming source
FixedStream ==
    /\ ScratchOpen
    /\ \E op \in FixedReads :
          GotScratch("stream", Rd(op, "None"), ReadOp(rd["stream"], Rd(op, "None")))
    /\ UNCHANGED <<w, sinks, reported, wlog, phase, input, opened>>

NextScratch ==
    \/ OpenOneStream
    \/ SliceStream
    \/ FixedStream

SpecScratch == InitDecode /\ [][NextScratch]_vars

\* ------------------------------------------ a live bytes.Buffer (SpecSnapshot)
\* A bytes.Buffer made over an empty slice of capacity BufCap: the program
\* writes to it, reads bytes out of it before any Reader is there, makes
\* Readers over it and reads through them, in any order. The k-th byte ever
\* written is k. The log of a Reader starts with an entry for NewReader: the
\* bytes the source was given, the place of their first byte in the array of
\* the buffer, and which array it was.

\* The capacity of the slice the buffer is made over.
BufCap == 4

\* The number of bytes written to the buffer in a run.
MaxBytes == 8

\* bytes.NewBuffer(make([]byte, 0, cap)): the array, the read offset, the
\* length of buf, gen counting the arrays made since; written and drained
\* count the bytes written and the bytes read out of the buffer itself.
NewBuffer(cap) ==
    [kind |-> "bytes", arr |-> SeqOf([i \in 1..cap |-> 0], cap), off |-> 0, len |-> 0,
     gen |-> 0, written |-> 0, drained |-> 0]

\* (*Buffer).Bytes: b.buf[b.off:]
Unread(b) == SubSeq(b.arr, b.off + 1, b.len)

\* (*Buffer).grow(n): an empty buffer is reset; the room after buf is taken
\* when n bytes fit there; else the unread bytes slide to the start of the
\* array when n <= cap/2 - Len, and else move to a new array. Returns the
\* buffer and the place m where the n bytes go.
BufGrow(b, n) ==
    With(IF b.len = b.off /\ b.off # 0 THEN [b EXCEPT !.off = 0, !.len = 0] ELSE b, LAMBDA r :
    With([m |-> r.len - r.off, c |-> Len(r.arr)], LAMBDA v :
        IF n <= v.c - r.len
        THEN [buf |-> [r EXCEPT !.len = @ + n], m |-> r.len]
        ELSE IF n <= (v.c \div 2) - v.m
        THEN [buf |-> [r EXCEPT
                  !.arr = SeqOf([i \in 1..v.c |-> IF i <= v.m THEN r.arr[r.off + i] ELSE r.arr[i]],
                                v.c),
                  !.off = 0, !.len = v.m + n],
              m |-> v.m]
        ELSE With(IF v.m + r.off + n < 2 * (v.c - r.off) THEN 2 * (v.c - r.off)
                  ELSE v.m + r.off + n, LAMBDA c2 :
             [buf |-> [r EXCEPT
                  !.arr = SeqOf([i \in 1..c2 |-> IF i <= v.m THEN r.arr[r.off + i] ELSE 0], c2),
                  !.off = 0, !.len = v.m + n, !.gen = @ + 1],
              m |-> v.m])))

\* (*Buffer).Write(p): m := b.grow(len(p)); copy(b.buf[m:], p)
BufWrite(b, p) ==
    With(BufGrow(b, Len(p)), LAMBDA g :
        [g.buf EXCEPT
            !.arr = SeqOf([i \in 1..Len(g.buf.arr) |->
                             IF i > g.m /\ i <= g.m + Len(p) THEN p[i - g.m] ELSE g.buf.arr[i]],
                          Len(g.buf.arr)),
            !.written = @ + Len(p)])

\* (*Buffer).ReadByte on a buffer that is not empty
BufferReadByte(b) == [b EXCEPT !.off = @ + 1, !.drained = @ + 1]

InitSnapshot ==
    /\ w = NewWriter(Sink("a")).obj
    /\ sinks = [t \in Targets |-> NewBuffer(BufCap)]
    /\ reported = 0
    /\ wlog = <<>>
    /\ InitReaders
    /\ phase = "read"
    /\ input = <<>>

\* The backing slice of the source of Reader id when the buffer has become b:
\* a window of the array of b while that is the array the source was made on.
Window(id, b) ==
    IF id \in opened /\ rlog[id][1].gen = b.gen
    THEN [rd[id] EXCEPT !.buffer =
             SubSeq(b.arr, rlog[id][1].at + 1, rlog[id][1].at + Len(rd[id].buffer))]
    ELSE rd[id]

\* buf.Write(p) with the next n bytes
BufferAppend ==
    \E n \in 1..2 :
        /\ sinks[w.out].written + n <= MaxBytes
        /\ With(BufWrite(sinks[w.out],
                         SeqOf([i \in 1..n |-> sinks[w.out].written + i], n)), LAMBDA b :
               /\ sinks' = [sinks EXCEPT ![w.out] = b]
               /\ rd' = [id \in Readers |-> Window(id, b)])
        /\ UNCHANGED <<w, reported, wlog, phase, input, opened, rlog>>

\* buf.ReadByte() by the program, before it makes a Reader
Drain ==
    /\ opened = {}
    /\ sinks[w.out].off < sinks[w.out].len
    /\ sinks' = [sinks EXCEPT ![w.out] = BufferReadByte(@)]
    /\ UNCHANGED <<w, reported, wlog, phase, input, opened, rd, rlog>>

\* NewReader(buf) for Reader id
OpenOver(id) ==
    /\ id \notin opened
    /\ opened' = opened \cup {id}
    /\ rd' = [rd EXCEPT ![id] =
                 NewReader([type |-> "bytes.Buffer", data |-> Unread(sinks[w.out])]).obj]
    /\ rlog' = [rlog EXCEPT ![id] =
           <<[op |-> "NewReader", arg |-> "None", val |-> Unread(sinks[w.out]), err |-> "nil",
              mem |-> "buffer", called |-> FALSE, from |-> Zero, to |-> Zero, took |-> Zero,
              at |-> sinks[w.out].off, gen |-> sinks[w.out].gen]>>]
    /\ UNCHANGED <<w, sinks, reported, wlog, phase, input>>

\* ReadUint8 through Reader id
SnapRead(id) ==
    /\ id \in opened
    /\ Len(rlog[id]) <= MaxReads
    /\ Got(id, Rd("Uint8", "None"), ReadOp(rd[id], Rd("Uint8", "None")))
    /\ UNCHANGED <<w, sinks, reported, wlog, phase, input, opened>>

NextSnapshot ==
    \/ BufferAppend
    \/ Drain
    \/ \E id \in Readers : OpenOver(id)
    \/ \E id \in Readers : SnapRead(id)

SpecSnapshot == InitSnapshot /\ [][NextSnapshot]_vars

\* ------------------------------------------------ wrapping again (SpecWrap)
\* Every write goes through the Writer that NewWriter returns for the Writer,
\* every read through the Reader that NewReader returns for the Reader or for
\* its source.

WrapInputs ==
    {Val("Uvarint", FromNat(300)), Val("Uint16", FromNat(513)), Val("Bool", TRUE),
     Val("String", <<104, 105>>), Val("Strings", << <<97>>, <<>> >>)}

\* The state after the typed write o through the Writer p designates, which
\* returned r.
WroteVia(p, o, r) ==
    /\ w' = r.st.w
    /\ sinks' = r.st.sinks
    /\ reported' = r.st.reported
    /\ wlog' = Append(wlog,
           [op |-> o.op, val |-> o.val, err |-> r.err,
            from |-> p.obj.offset, to |-> r.st.w.offset,
            via |-> p.at, out |-> p.obj.out])

WriteVia(p, o) == WroteVia(p, o, WriteOp([w |-> p.obj, sinks |-> sinks, reported |-> reported], o))

\* w2 := NewWriter(w), then a typed write through w2
WrapWrite ==
    /\ phase = "write"
    /\ Len(wlog) < MaxOps
    /\ \E o \in WrapInputs : WriteVia(NewWriter(Ptr("Writer", "w", w)), o)
    /\ UNCHANGED <<phase, input, opened, rd, rlog>>

\* The state after the typed read o through the Reader p designates, which
\* returned r.
GotVia(id, p, o, r) ==
    /\ rd' = [rd EXCEPT ![id] = r.src]
    /\ rlog' = [rlog EXCEPT ![id] = Append(@,
           [op |-> o.op, val |-> r.val, err |-> r.err,
            from |-> Offset(p.obj), to |-> Offset(r.src),
            via |-> p.at, given |-> p.type])]

ReadVia(id, p, o) == GotVia(id, p, o, ReadOp(p.obj, o))

\* the type of the source of a Reader
SourceType(src) == IF src.kind = "slice" THEN "sliceSource" ELSE "streamSource"

\* r2 := NewReader(r), or NewReader(src) for the source of r, then the next
\* read through r2
WrapRead(id) ==
    /\ id \in opened
    /\ Len(rlog[id]) < Len(wlog)
    /\ \E type \in {"Reader", SourceType(rd[id])} :
          ReadVia(id, NewReader(Ptr(type, id, rd[id])), ReadFor(wlog[Len(rlog[id]) + 1]))
    /\ UNCHANGED <<w, sinks, reported, wlog, phase, input, opened>>

NextWrap ==
    \/ WrapWrite
    \/ Emit
    \/ OpenSlice
    \/ \E sup \in Suppliers : OpenStream(sup)
    \/ \E id \in Readers : WrapRead(id)

SpecWrap == Init /\ [][NextWrap]_vars

\* --------------------------------------------- one backing array (SpecShared)
\* Two Readers, each made by NewReader over a bytes.Buffer of the same backing
\* array, read the values written, each at its own pace. The array is the
\* input: what a read leaves in the buffer of its source is what the array
\* and the buffer of the other source hold after it.

SharedInputs ==
    {Val("Uint32", Or(Pow2(31), FromNat(4660))), Val("String", <<104, 105>>),
     Val("Varint", Not(FromNat(15))), Val("Uint16s", <<FromNat(513), FromNat(65535)>>)}

WriteShared ==
    /\ Len(wlog) < MaxOps
    /\ \E o \in SharedInputs : DoWrite(o)

\* NewReader(bytes.NewBuffer(input)) for Reader id
OpenShared(id) ==
    /\ phase = "read"
    /\ id \notin opened
    /\ opened' = opened \cup {id}
    /\ rd' = [rd EXCEPT ![id] = NewReader([type |-> "bytes.Buffer", data |-> input]).obj]
    /\ UNCHANGED <<w, sinks, reported, wlog, phase, input, rlog>>

\* The state after the typed read o of Reader id, which returned r.
GotShared(id, o, r) ==
    /\ input' = r.src.buffer
    /\ rd' = [i \in Readers |->
                 IF i = id THEN r.src
                 ELSE IF i \in opened THEN [rd[i] EXCEPT !.buffer = r.src.buffer]
                 ELSE rd[i]]
    /\ rlog' = [rlog EXCEPT ![id] = Append(@,
           [op |-> o.op, arg |-> o.elem, val |-> r.val, err |-> r.err, mem |-> Mem(r),
            called |-> Called(r),
            from |-> Offset(rd[id]), to |-> Offset(r.src), took |-> Taken(rd[id], r.src)])]

\* Reader id reads the next value, in the order of the writes.
SharedRead(id) ==
    /\ id \in opened
    /\ Len(rlog[id]) < Len(wlog)
    /\ GotShared(id, ReadFor(wlog[Len(rlog[id]) + 1]),
                 ReadOp(rd[id], ReadFor(wlog[Len(rlog[id]) + 1])))
    /\ UNCHANGED <<w, sinks, reported, wlog, phase, opened>>

NextShared ==
    \/ WriteShared
    \/ Emit
    \/ \E id \in Readers : OpenShared(id)
    \/ \E id \in Readers : SharedRead(id)

SpecShared == Init /\ [][NextShared]_vars

\* ------------------------------------------------------ rebinding (SpecReset)
\* Up to MaxOps typed writes and up to MaxOps calls of Reset, into two
\* bytes.Buffer sinks; the calls of Reset are in the log of the writes.

ResetInputs ==
    {Val("Uint16", FromNat(513)), Val("String", <<104, 105>>), Val("Strings", << <<97>>, <<>> >>)}

IsReset(e) == e.op = "Reset"

IsWrite(e) == e.op # "Reset"

WriteBound ==
    /\ Len(SelectSeq(wlog, IsWrite)) < MaxOps
    /\ \E o \in ResetInputs : DoWrite(o)

\* w.Reset(out)
ResetTo(out) ==
    /\ phase = "write"
    /\ Len(SelectSeq(wlog, IsReset)) < MaxOps
    /\ w' = Reset(w, out)
    /\ reported' = 0
    /\ wlog' = Append(wlog,
           [op |-> "Reset", val |-> out, err |-> "nil", trace |-> <<>>,
            from |-> w.offset, to |-> Reset(w, out).offset, req |-> 0, acc |-> 0])
    /\ UNCHANGED <<sinks, phase, input, opened, rd, rlog>>

NextReset ==
    \/ WriteBound
    \/ \E out \in Targets : ResetTo(out)

SpecReset == Init /\ [][NextReset]_vars

\* ------------------------------------------------- pass-through (SpecClose)
\* Up to MaxOps typed writes and up to MaxOps calls of Flush and Close, on a
\* Writer over a bytes.Buffer, over a limitWriter and over a file.

CloseKinds == {"buffer", "limit", "file"}

InitClose ==
    /\ \E kind \in CloseKinds : InitWriter(kind, MaxLimit)
    /\ InitReaders
    /\ phase = "write"
    /\ input = <<>>

IsCall(e) == e.op \in {"Flush", "Close"}

IsTyped(e) == e.op \notin {"Flush", "Close"}

WriteOpen ==
    /\ Len(SelectSeq(wlog, IsTyped)) < MaxOps
    /\ \E o \in ResetInputs : DoWrite(o)

\* w.Flush() or w.Close(), which returned r
PassThrough ==
    /\ phase = "write"
    /\ Len(SelectSeq(wlog, IsCall)) < MaxOps
    /\ \E op \in {"Flush", "Close"} :
          Wrote(Val(op, <<>>),
                IF op = "Flush" THEN Flush([w |-> w, sinks |-> sinks, reported |-> reported])
                ELSE Close([w |-> w, sinks |-> sinks, reported |-> reported]))
    /\ UNCHANGED <<phase, input, opened, rd, rlog>>

NextClose ==
    \/ WriteOpen
    \/ PassThrough

SpecClose == InitClose /\ [][NextClose]_vars

\* -------------------------------------------------- emitted bytes (SpecEmit)
\* Up to MaxOps typed writes into a bytes.Buffer, none of them read back.

\* the length of a block whose length prefix takes two bytes
LongLen == 130

Long == SeqOf([i \in 1..LongLen |-> i % 256], LongLen)

\* blocks and strings of the same contents; values of which the marshal
\* function returns bytes, and values of which it returns an error
EmitInputs ==
    {Val(op, v) : op \in {"Bytes", "String"}, v \in {<<>>, <<104, 105>>, <<0>>, Long}}
    \cup {Val(op, [out |-> v, err |-> "nil"]) : op \in {"Binary", "Text"}, v \in {<<>>, <<1, 0, 255>>}}
    \cup {Val("Binary", [out |-> <<7>>, err |-> "ErrMarshal"]),
          Val("Text", [out |-> <<>>, err |-> "ErrSyntax"])}

WriteEmit ==
    /\ Len(wlog) < MaxOps
    /\ \E o \in EmitInputs : DoWrite(o)

NextEmit == WriteEmit

SpecEmit == Init /\ [][NextEmit]_vars

\* ------------------------------------------------------ booleans (SpecBool)
\* A boolean is written and read back, or any one byte is read as a boolean.

\* every value of a byte
Bytes == 0..255

\* WriteBool(v) as the one write of the run
WriteBoolean ==
    /\ Len(wlog) = 0
    /\ \E v \in BOOLEAN : DoWrite(Val("Bool", v))

\* the input is the one byte b, which no Writer wrote
Feed(b) ==
    /\ phase = "write"
    /\ Len(wlog) = 0
    /\ phase' = "read"
    /\ input' = <<b>>
    /\ UNCHANGED <<w, sinks, reported, wlog, opened, rd, rlog>>

\* ReadBool
ReadBoolean(id) ==
    /\ Len(rlog[id]) < MaxReads
    /\ DoRead(id, Rd("Bool", "None"))

NextBool ==
    \/ WriteBoolean
    \/ Emit
    \/ \E b \in Bytes : Feed(b)
    \/ OpenSlice
    \/ \E sup \in Suppliers : OpenStream(sup)
    \/ \E id \in Readers : ReadBoolean(id)

SpecBool == Init /\ [][NextBool]_vars

\* -------------------------------------------------------------- properties

\* the bytes the Writer emitted, all of them, are the input of the Readers
Whole == phase = "read" /\ input = sinks[w.out].buffer

\* a fresh Writer over an empty bytes.Buffer, and the bytes a typed write emits
\* into it
Fresh ==
    [w |-> NewWriter(Sink("a")).obj, sinks |-> [t \in Targets |-> NewSink("buffer", 0)], reported |-> 0]

Encoded(o) == WriteOp(Fresh, o).st.sinks["a"].buffer

\* C1: a Reader over the bytes a Writer emitted, making the reads that
\* correspond to the writes in their order, returns each written value with no
\* error, and its Offset after each read is the Writer's after the write; after
\* the last read both are the number of the bytes emitted.
RoundTrip ==
    \A id \in opened :
        /\ \A k \in 1..Len(rlog[id]) :
              /\ rlog[id][k].err = "nil"
              /\ rlog[id][k].val = Written(wlog[k])
              /\ rlog[id][k].from = FromNat(wlog[k].from)
              /\ rlog[id][k].to = FromNat(wlog[k].to)
        /\ Len(rlog[id]) = Len(wlog) =>
              /\ Offset(rd[id]) = FromNat(w.offset)
              /\ w.offset = Len(input)
              /\ input = sinks[w.out].buffer

\* both Readers have read back a sequence of strings and the largest uvarint
RoundTripDone ==
    /\ opened = Readers
    /\ Len(wlog) = 2
    /\ wlog[1].op = "Strings"
    /\ wlog[2] # wlog[1]
    /\ wlog[2].op = "Uvarint"
    /\ \A id \in Readers : Len(rlog[id]) = 2 /\ rlog[id][2].val = AllOnes

\* C2: the bytes WriteUvarint(x) emits decode with ReadUvarint to x, with no
\* error, and the read takes exactly the bytes emitted.
UvarintRoundTrip ==
    \A id \in opened :
        (Whole /\ wlog[1].op = "Uvarint" /\ Len(rlog[id]) = 1) =>
            /\ rlog[id][1].err = "nil"
            /\ rlog[id][1].val = wlog[1].val
            /\ rlog[id][1].took = FromNat(Len(input))
            /\ Len(input) = wlog[1].to

\* 2^63 and 2^64-1 written and read back, by a Reader of each variant
UvarintRead ==
    /\ Whole
    /\ wlog[1].op = "Uvarint"
    /\ opened = Readers
    /\ wlog[1].val \in {Pow2(63), AllOnes}
    /\ \A id \in Readers : Len(rlog[id]) = 1 /\ Len(input) = 10

\* C3: WriteVarint(v) emits the unsigned varint of u = v << 1, complemented
\* when v < 0, and ReadVarint over those bytes returns v with no error; the
\* mapping and the mapping of ReadVarint undo each other both ways, so it is
\* one-to-one and onto.
VarintRoundTrip ==
    /\ \A k \in 1..Len(wlog) :
          /\ wlog[k].op = "Varint" =>
                /\ sinks[w.out].buffer =
                      Encoded([op |-> "Uvarint",
                               val |-> IF IsNeg(wlog[k].val) THEN Not(Shl(wlog[k].val, 1))
                                       ELSE Shl(wlog[k].val, 1)])
                /\ UnZigZag(ZigZag(wlog[k].val)) = wlog[k].val
          /\ wlog[k].op = "Uvarint" => ZigZag(UnZigZag(wlog[k].val)) = wlog[k].val
    /\ \A id \in opened :
          (Whole /\ wlog[1].op = "Varint" /\ Len(rlog[id]) = 1) =>
              /\ rlog[id][1].err = "nil"
              /\ rlog[id][1].val = wlog[1].val

\* the minimum int64 and -1 written and read back, by a Reader of each variant
VarintRead ==
    /\ Whole
    /\ wlog[1].op = "Varint"
    /\ wlog[1].val \in {Pow2(63), AllOnes}
    /\ opened = Readers
    /\ \A id \in Readers : Len(rlog[id]) = 1 /\ IsNeg(rlog[id][1].val)

\* C4: the read of a value over a prefix of its encoding that is shorter than
\* the encoding returns an error of the end-of-input class, on either source.
TruncationFails ==
    \A id \in opened :
        (phase = "read" /\ Len(input) < Len(sinks[w.out].buffer) /\ Len(rlog[id]) = 1) =>
            rlog[id][1].err \in {"EOF", "ErrUnexpectedEOF"}

\* a range of two names short of its last byte, read from both sources
TruncatedRead ==
    /\ phase = "read"
    /\ wlog[1].op = "Range"
    /\ Len(input) = Len(sinks[w.out].buffer) - 1
    /\ opened = Readers
    /\ \A id \in Readers : Len(rlog[id]) = 1 /\ rlog[id][1].err # "nil"

\* the value of the ten groups of seven bits of b, the lowest first, modulo 2^64
RECURSIVE Payload(_, _)
Payload(b, i) ==
    IF i = 0 THEN Zero ELSE Add(Payload(b, i - 1), Shl(FromByte(b[i] % 128), 7 * (i - 1)))

\* the first nine bytes of the input have the continuation bit set, a tenth follows
TenBytes == Len(input) >= 10 /\ \A i \in 1..9 : input[i] >= 128

\* C5: ReadUvarint over ten bytes of which the first nine have the continuation
\* bit set fails with the overflow error when the tenth is above 1 and returns
\* the 64-bit value when it is 0 or 1; no ReadUvarint takes more than ten bytes.
TenByteRule ==
    \A id \in opened : \A k \in 1..Len(rlog[id]) :
        rlog[id][k].op = "Uvarint" =>
            /\ ~ULt(FromNat(10), rlog[id][k].took)
            /\ (k = 1 /\ TenBytes) =>
                  IF input[10] > 1 THEN rlog[id][k].err = "overflow"
                  ELSE /\ rlog[id][k].err = "nil"
                       /\ rlog[id][k].val = Payload(input, 10)
                       /\ rlog[id][k].took = FromNat(10)

\* ReadUvarint has refused twelve bytes that all but the last have the
\* continuation bit set, on a source of either variant
TenthByteRefused ==
    /\ input = Rep9(255) \o <<255, 255, 1>>
    /\ \E id \in opened :
          /\ Len(rlog[id]) = 1
          /\ rlog[id][1].op = "Uvarint"
          /\ rlog[id][1].err = "overflow"
          /\ rlog[id][1].took = FromNat(10)
          /\ rd[id].kind = "stream"

\* C6: the slice source and the streaming source over the same bytes written
\* return the same values and the same errors read by read, and the same Offset
\* after each read.
SameDecoding ==
    opened = Readers =>
        \A k \in 1..Min(Len(rlog["slice"]), Len(rlog["stream"])) :
            /\ rlog["slice"][k].val = rlog["stream"][k].val
            /\ rlog["slice"][k].err = rlog["stream"][k].err
            /\ rlog["slice"][k].to = rlog["stream"][k].to
            /\ (k = Len(wlog) /\ k = Len(rlog["slice"]) /\ k = Len(rlog["stream"])) =>
                  Offset(rd["slice"]) = Offset(rd["stream"])

\* both sources have read two values, the streaming one from a supplier that
\* hands out a byte at a time
SameDecodingDone ==
    /\ opened = Readers
    /\ rd["stream"].wrapped
    /\ rd["stream"].chunk = 1
    /\ Len(wlog) = 2
    /\ wlog[1].op = "Uint32"
    /\ wlog[2].op = "Range"
    /\ Len(rlog["slice"]) = 2
    /\ Len(rlog["stream"]) = 2

\* C7: the Offset of a Reader after each read is its Offset before it plus the
\* bytes the read took from the source, whether the read failed or not, each
\* read starts where the one before ended, and the Offset never decreases.
OffsetAccounting ==
    \A id \in opened :
        /\ \A k \in 1..Len(rlog[id]) :
              /\ rlog[id][k].to = Add(rlog[id][k].from, rlog[id][k].took)
              /\ ~SLt(rlog[id][k].to, rlog[id][k].from)
              /\ rlog[id][k].from = (IF k = 1 THEN Zero ELSE rlog[id][k - 1].to)
        /\ Offset(rd[id]) = (IF Len(rlog[id]) = 0 THEN Zero ELSE rlog[id][Len(rlog[id])].to)
        /\ ~IsNeg(Offset(rd[id]))

\* the part of C7 that the reads that do not fault satisfy
OffsetAccountingSound ==
    \A id \in opened :
        \A k \in 1..Len(rlog[id]) :
            rlog[id][k].err # "panic" =>
                /\ rlog[id][k].to = Add(rlog[id][k].from, rlog[id][k].took)
                /\ ~SLt(rlog[id][k].to, rlog[id][k].from)
                /\ rlog[id][k].from = (IF k = 1 THEN Zero ELSE rlog[id][k - 1].to)

\* the length of the encoding of a uvarint below 2^14
UvarintLen(n) == IF n < 128 THEN 1 ELSE 2

\* the length of the encoding of a typed write of SinkInputs
EncodedLen(o) ==
    CASE o.op = "Uint16" -> 2
      [] o.op = "Uint64" -> 8
      [] o.op = "Bool" -> 1
      [] o.op = "Uvarint" -> UvarintLen(ToNat(o.val))
      [] o.op = "String" -> UvarintLen(Len(o.val)) + Len(o.val)
      [] o.op = "Write" -> Len(o.val)
      [] o.op = "Strings" -> UvarintLen(Len(o.val)) + Len(o.val) + Len(o.val[1]) + Len(o.val[2])

\* C8: the Offset of a Writer is the sum of the counts its sink reported since
\* the Writer was made or last Reset, whether the writes failed or not; a write
\* of which the sink took every byte adds the length of its encoding.
OffsetIsReported ==
    /\ w.offset = reported
    /\ \A k \in 1..Len(wlog) :
          /\ wlog[k].to - wlog[k].from = wlog[k].acc
          /\ (wlog[k].err = "nil" /\ wlog[k].acc = wlog[k].req) =>
                wlog[k].to - wlog[k].from = EncodedLen(wlog[k])

\* after a Reset a write went through and the next was cut short by the sink
OffsetAfterFailure ==
    /\ Len(wlog) = 2
    /\ wlog[1].err = "nil"
    /\ wlog[1].to > 0
    /\ wlog[2].err # "nil"
    /\ wlog[2].from = 0
    /\ wlog[2].acc > 0
    /\ wlog[2].acc < wlog[2].req
    /\ w.offset = wlog[2].acc

\* C9: a typed write of which the sink took fewer bytes than it was asked to
\* returns an error, and the Offset grows by the bytes the sink took.
ShortWriteFails ==
    \A k \in 1..Len(wlog) :
        (wlog[k].op # "Write" /\ wlog[k].acc < wlog[k].req) =>
            /\ wlog[k].err # "nil"
            /\ wlog[k].to - wlog[k].from = wlog[k].acc

\* the reads with a length or count prefix
Prefixed == {"Bytes", "String", "Binary", "Text", "Range", "Uint8s", "Strings"}

\* C10: over any input ReadBytes, ReadString, ReadBinary, ReadText, ReadRange
\* and the sequence reads return a value or an error; none faults.
NoFault ==
    \A id \in opened : \A k \in 1..Len(rlog[id]) :
        rlog[id][k].op \in Prefixed => rlog[id][k].err # "panic"

\* what the caller holds now of the value read k-th by Reader id: a value in the
\* scratch buffer is what the scratch buffer holds now
Held(id, k) ==
    IF rlog[id][k].mem = "scratch"
    THEN Prefix(rd[id].scratch, FromNat(Len(rlog[id][k].val)))
    ELSE rlog[id][k].val

\* C11: what ReadBytes and ReadString return lives in a buffer of its own, not
\* in the backing slice of the source and not in the scratch buffer, and is
\* unchanged by the later reads of the Reader, on either source.
FreshlyOwned ==
    \A id \in opened : \A k \in 1..Len(rlog[id]) :
        (rlog[id][k].op \in {"Bytes", "String"} /\ rlog[id][k].err = "nil") =>
            /\ rlog[id][k].mem = "own"
            /\ Held(id, k) = rlog[id][k].val

\* a streaming Reader returned a block from ReadBytes, then ReadBinary put
\* other bytes into the scratch buffer
FreshAfterBinary ==
    /\ "stream" \in opened
    /\ Len(rlog["stream"]) = 2
    /\ rlog["stream"][1].op = "Bytes"
    /\ rlog["stream"][1].val = <<7>>
    /\ rlog["stream"][2].op = "Binary"
    /\ rlog["stream"][2].val = <<9>>
    /\ Prefix(rd["stream"].scratch, FromNat(1)) = <<9>>

\* C12: NewReader of a Reader, NewReader of its source and NewWriter of a Writer
\* return what they were given: the write or read made through what they
\* return starts at the offset the Writer or Reader had (it is not reset), goes
\* to the same sink, and leaves the Reader where the read ended; the values
\* read are the values written.
Idempotent ==
    /\ \A k \in 1..Len(wlog) :
          /\ wlog[k].via = "w"
          /\ wlog[k].out = "a"
          /\ wlog[k].from = (IF k = 1 THEN 0 ELSE wlog[k - 1].to)
    /\ w.offset = Len(sinks["a"].buffer)
    /\ \A id \in opened : \A k \in 1..Len(rlog[id]) :
          /\ rlog[id][k].via = id
          /\ rlog[id][k].from = (IF k = 1 THEN Zero ELSE rlog[id][k - 1].to)
          /\ rlog[id][k].to = FromNat(wlog[k].to)
          /\ rlog[id][k].err = "nil"
          /\ rlog[id][k].val = Written(wlog[k])

\* two values written through NewWriter(w) and read back by both Readers, the
\* second read of the slice Reader through NewReader of its source
WrappedTwice ==
    /\ Len(wlog) = 2
    /\ wlog[2].from > 0
    /\ opened = Readers
    /\ \A id \in Readers : Len(rlog[id]) = 2 /\ rlog[id][1].given = "Reader"
    /\ rlog["slice"][2].given = "sliceSource"
    /\ rlog["stream"][2].given = "Reader"

\* the bytes the first k reads of Reader id took from its source
RECURSIVE Consumed(_, _)
Consumed(id, k) == IF k = 0 THEN Zero ELSE Add(Consumed(id, k - 1), rlog[id][k].took)

\* the reads that are Read and ReadByte of the source
ByteReads == {"Read", "Uint8", "Bool"}

\* C13: the source of a Reader made of no supplier is a slice source over no
\* bytes, and every read of it returns io.EOF and leaves the cursor at 0; Read
\* and ReadByte of a source of which every byte was taken return an error, also
\* a Read into an empty destination.
ExhaustedFails ==
    /\ NewReader([type |-> "nil"]).obj = newSliceSource(<<>>)
    /\ \A id \in opened : \A k \in 1..Len(rlog[id]) :
          /\ (rd[id].kind = "slice" /\ input = <<>>) =>
                rlog[id][k].err = "EOF" /\ rlog[id][k].to = Zero
          /\ (rlog[id][k].op \in ByteReads /\ Consumed(id, k - 1) = FromNat(Len(input))) =>
                rlog[id][k].err # "nil"

\* the part of C13 that holds: all of it but the Read of a streamSource into
\* an empty destination
ExhaustedFailsSound ==
    \A id \in opened : \A k \in 1..Len(rlog[id]) :
        /\ (rd[id].kind = "slice" /\ input = <<>>) =>
              rlog[id][k].err = "EOF" /\ rlog[id][k].to = Zero
        /\ (/\ rlog[id][k].op \in ByteReads
            /\ Consumed(id, k - 1) = FromNat(Len(input))
            /\ ~(rd[id].kind = "stream" /\ rlog[id][k].op = "Read" /\ rlog[id][k].arg = 0)) =>
              rlog[id][k].err # "nil"

\* C14: ReadBool over one byte b returns true when b = 1 and false for every
\* other b, with no error; WriteBool emits one byte, 1 for true and 0 for
\* false, and ReadBool over it returns what was written.
BoolCodec ==
    /\ Len(wlog) = 1 =>
          /\ sinks[w.out].buffer = <<IF wlog[1].val THEN 1 ELSE 0>>
          /\ w.offset = 1
    /\ \A id \in opened :
          Len(rlog[id]) >= 1 =>
              /\ rlog[id][1].err = "nil"
              /\ rlog[id][1].val = (input[1] = 1)
              /\ rlog[id][1].took = FromNat(1)
              /\ Len(wlog) = 1 => rlog[id][1].val = wlog[1].val

\* both Readers have read the byte 255 as false
BoolOfAnyByte ==
    /\ input = <<255>>
    /\ opened = Readers
    /\ \A id \in Readers : Len(rlog[id]) = 1 /\ rlog[id][1].val = FALSE

\* the width in bytes of the fixed-width integers
FixedWidth ==
    [Uint8 |-> 1, Uint16 |-> 2, Uint32 |-> 4, Uint64 |-> 8, Uint |-> 8,
     Int8 |-> 1, Int16 |-> 2, Int32 |-> 4, Int64 |-> 8, Int |-> 8]

\* the unsigned write of the width of a signed one
Unsigned ==
    [Int8 |-> "Uint8", Int16 |-> "Uint16", Int32 |-> "Uint32", Int64 |-> "Uint64", Int |-> "Uint64"]

\* the n bytes of v from its bits, the lowest byte first
LittleEndian(v, n) ==
    SeqOf([i \in 1..n |->
             Bit(v, 8 * i - 8) + 2 * Bit(v, 8 * i - 7) + 4 * Bit(v, 8 * i - 6)
             + 8 * Bit(v, 8 * i - 5) + 16 * Bit(v, 8 * i - 4) + 32 * Bit(v, 8 * i - 3)
             + 64 * Bit(v, 8 * i - 2) + 128 * Bit(v, 8 * i - 1)], n)

\* C15: WriteUintN(v) and WriteIntN(v), N bytes wide for N = 1, 2, 4, 8, emit
\* the N bytes of v, the lowest first, a signed v as its two's complement on
\* N bytes (the bytes of the unsigned write of v modulo 2^(8N)); WriteInt and
\* WriteUint emit the eight-byte form; the read of the same width over those
\* bytes returns v with no error.
FixedCodec ==
    \A k \in 1..Len(wlog) :
        wlog[k].op \in DOMAIN FixedWidth =>
            /\ sinks[w.out].buffer = LittleEndian(wlog[k].val, FixedWidth[wlog[k].op])
            /\ Len(sinks[w.out].buffer) = FixedWidth[wlog[k].op]
            /\ w.offset = FixedWidth[wlog[k].op]
            /\ wlog[k].op \in DOMAIN Unsigned =>
                  sinks[w.out].buffer =
                      Encoded(Val(Unsigned[wlog[k].op],
                                  Trunc(wlog[k].val, 8 * FixedWidth[wlog[k].op])))
            /\ wlog[k].op \in {"Uint", "Int"} =>
                  sinks[w.out].buffer =
                      Encoded(Val(IF wlog[k].op = "Uint" THEN "Uint64" ELSE "Int64", wlog[k].val))
            /\ \A id \in opened :
                  (Whole /\ Len(rlog[id]) = 1) =>
                      /\ rlog[id][1].err = "nil"
                      /\ rlog[id][1].val = wlog[k].val
                      /\ rlog[id][1].took = FromNat(FixedWidth[wlog[k].op])

\* -2^31 written as an int32 and read back by a Reader of each variant
FixedRead ==
    /\ Whole
    /\ wlog[1].op = "Int32"
    /\ IsNeg(wlog[1].val)
    /\ sinks[w.out].buffer = <<0, 0, 0, 128>>
    /\ opened = Readers
    /\ \A id \in Readers : Len(rlog[id]) = 1 /\ rlog[id][1].val = wlog[1].val

\* the unsigned varint of a natural number n, from its groups of seven bits
RECURSIVE UvarintOf(_)
UvarintOf(n) == IF n < 128 THEN <<n>> ELSE <<(n % 128) + 128>> \o UvarintOf(n \div 128)

\* what the k-th write added to the sink
Emitted(k) == SubSeq(sinks[w.out].buffer, wlog[k].from + 1, wlog[k].to)

\* C16: WriteBytes(b) and WriteString(s) emit the unsigned varint of the length
\* followed by the bytes themselves and nothing else, the single byte 0 for an
\* empty value; a block and a string of the same content emit the same bytes.
LengthPrefixed ==
    /\ w.offset = Len(sinks[w.out].buffer)
    /\ \A k \in 1..Len(wlog) :
          wlog[k].op \in {"Bytes", "String"} =>
              /\ wlog[k].err = "nil"
              /\ wlog[k].from = (IF k = 1 THEN 0 ELSE wlog[k - 1].to)
              /\ Emitted(k) = UvarintOf(Len(wlog[k].val)) \o wlog[k].val
              /\ wlog[k].val = <<>> => Emitted(k) = <<0>>
              /\ k = Len(wlog) => wlog[k].to = w.offset
              /\ \A j \in 1..Len(wlog) :
                    (wlog[j].op \in {"Bytes", "String"} /\ wlog[j].val = wlog[k].val) =>
                        Emitted(j) = Emitted(k)

\* a block of 130 bytes was written after a string of the same content, each
\* after a length prefix of two bytes
LongBlockWritten ==
    /\ Len(wlog) = 2
    /\ wlog[1].op = "String"
    /\ wlog[2].op = "Bytes"
    /\ wlog[1].val = wlog[2].val
    /\ Len(wlog[2].val) >= 128
    /\ SubSeq(Emitted(2), 1, 2) = <<(Len(wlog[2].val) % 128) + 128, 1>>
    /\ Len(sinks[w.out].buffer) = 2 * (Len(wlog[2].val) + 2)

\* the bytes the sink takes for the count of a sequence of n steps and the
\* first m of its elements
RECURSIVE DeliveredLen(_, _)
DeliveredLen(elems, m) ==
    IF m = 0 THEN Len(UvarintOf(Len(elems)))
    ELSE DeliveredLen(elems, m - 1) + Len(Encoded(elems[m]))

\* C17: WriteRange(length, fn) writes the count, then calls fn(0, w), fn(1, w),
\* .. in this order; it stops at the first step that fails and returns the
\* error of that step: no callback when the write of the count fails, none
\* after a callback that fails, all of them when none fails; the bytes the
\* sink took before the failure are counted by Offset.
RangeInOrder ==
    \A k \in 1..Len(wlog) :
        wlog[k].op = "Range" =>
            /\ Len(wlog[k].trace) \in 1..(Len(wlog[k].val) + 1)
            /\ \A j \in 1..Len(wlog[k].trace) :
                  /\ wlog[k].trace[j].step = j - 1
                  /\ j < Len(wlog[k].trace) => wlog[k].trace[j].err = "nil"
            /\ wlog[k].err = wlog[k].trace[Len(wlog[k].trace)].err
            /\ wlog[k].err = "nil" => Len(wlog[k].trace) = Len(wlog[k].val) + 1
            /\ wlog[k].to - wlog[k].from = wlog[k].acc
            /\ (wlog[k].err = "ErrMarshal" /\ wlog[k].acc = wlog[k].req) =>
                  wlog[k].acc = DeliveredLen(wlog[k].val, Len(wlog[k].trace) - 2)

\* one WriteRange stopped at the write of its count, another at its second
\* callback after the sink took the count and the first element
RangeStopped ==
    /\ Len(wlog) = 2
    /\ wlog[1].op = "Range"
    /\ wlog[1].err = "ErrMarshal"
    /\ Len(wlog[1].trace) = 3
    /\ wlog[1].to = 3
    /\ wlog[2].op = "Range"
    /\ Len(wlog[2].trace) = 1
    /\ wlog[2].err = "ErrShortBuffer"
    /\ w.offset = 3

\* C19: when the marshal function of WriteBinary or WriteText returns an
\* error, the write returns that error, the sink is handed nothing and Offset
\* stays where it was; when it returns bytes, the write emits their length as
\* an unsigned varint followed by the bytes.
MarshalDelegated ==
    \A k \in 1..Len(wlog) :
        wlog[k].op \in {"Binary", "Text"} =>
            /\ wlog[k].err = wlog[k].val.err
            /\ wlog[k].from = (IF k = 1 THEN 0 ELSE wlog[k - 1].to)
            /\ wlog[k].val.err # "nil" =>
                  /\ wlog[k].to = wlog[k].from
                  /\ wlog[k].req = 0
                  /\ wlog[k].acc = 0
            /\ wlog[k].val.err = "nil" =>
                  Emitted(k) = UvarintOf(Len(wlog[k].val.out)) \o wlog[k].val.out
            /\ k = Len(wlog) =>
                  /\ w.offset = wlog[k].to
                  /\ Len(sinks[w.out].buffer) = wlog[k].to

\* a marshal function failed after a block of three bytes was written
MarshalFailed ==
    /\ Len(wlog) = 2
    /\ wlog[1].op = "Binary"
    /\ wlog[1].err = "nil"
    /\ wlog[2].op = "Text"
    /\ wlog[2].err = "ErrSyntax"
    /\ sinks[w.out].buffer = <<3, 1, 0, 255>>
    /\ w.offset = 4

\* the reads of a sequence
SeqReads == {"Range", "Uint8s", "Strings"}

\* the place of the first byte of b from place i on without the continuation
\* bit, 0 when there is none
RECURSIVE PrefixEnd(_, _)
PrefixEnd(b, i) == IF i > Len(b) THEN 0 ELSE IF b[i] < 128 THEN i ELSE PrefixEnd(b, i + 1)

\* the input starts with a well-formed unsigned varint
CountDecodes ==
    /\ PrefixEnd(input, 1) \in 1..10
    /\ PrefixEnd(input, 1) = 10 => input[10] <= 1

\* the typed write of the sequence that the read e returned
AsWritten(e) ==
    IF e.op = "Range"
    THEN Val("Range", SeqOf([i \in 1..Len(e.val) |-> Val(e.arg, e.val[i])], Len(e.val)))
    ELSE Val(e.op, e.val)

\* the first read of Reader id is the read of a sequence over an input that
\* starts with a count
SeqReadFirst(id) ==
    /\ Len(rlog[id]) >= 1
    /\ rlog[id][1].op \in SeqReads
    /\ CountDecodes

\* the read e of a sequence over an input that starts with the count c went
\* as a sequence read is to go
SeqReadOk(e, c) ==
    /\ e.err # "panic"
    /\ e.err = "nil" =>
          /\ FromNat(Len(e.val)) = c
          /\ Encoded(AsWritten(e)) = SubSeq(input, 1, ToNat(e.took))
    /\ e.err # "nil" =>
          /\ e.val = <<>>
          /\ e.err \in {"EOF", "ErrUnexpectedEOF"}
          /\ e.took = FromNat(Len(input))
          /\ e.to = e.took

\* C18: a sequence read decodes the count, then that many elements in order;
\* when it succeeds its result has count elements, those of the input in their
\* order; when an element fails it returns the error of that element and no
\* sequence, and the bytes taken up to there stay taken: the next read starts
\* after them.
SequenceExact ==
    \A id \in opened :
        SeqReadFirst(id) =>
            /\ SeqReadOk(rlog[id][1], Payload(input, PrefixEnd(input, 1)))
            /\ Len(rlog[id]) >= 2 => rlog[id][2].from = rlog[id][1].to

\* the part of C18 that holds: the sequence reads that do not fault, of a
\* count below 2^63
SequenceExactSound ==
    \A id \in opened :
        (/\ SeqReadFirst(id)
         /\ rlog[id][1].err # "panic"
         /\ ~IsNeg(Payload(input, PrefixEnd(input, 1)))) =>
            /\ SeqReadOk(rlog[id][1], Payload(input, PrefixEnd(input, 1)))
            /\ Len(rlog[id]) >= 2 => rlog[id][2].from = rlog[id][1].to

\* ReadStrings returned two strings, ReadUint8s then failed at the end of the
\* input
SequenceRead ==
    /\ input = <<2, 1, 97, 0>>
    /\ \E id \in opened :
          /\ Len(rlog[id]) = 2
          /\ rlog[id][1].op = "Strings"
          /\ rlog[id][1].val = << <<97>>, <<>> >>
          /\ rlog[id][2].op = "Uint8s"
          /\ rlog[id][2].err = "EOF"

\* the block the input holds after its length prefix, all of it there
BlockDecodes ==
    /\ CountDecodes
    /\ IsSmall(Payload(input, PrefixEnd(input, 1)))
    /\ PrefixEnd(input, 1) + ToNat(Payload(input, PrefixEnd(input, 1))) <= Len(input)

Block ==
    SubSeq(input, PrefixEnd(input, 1) + 1,
           PrefixEnd(input, 1) + ToNat(Payload(input, PrefixEnd(input, 1))))

\* the first read e of a Reader, ReadBinary or ReadText, went as it is to go
UnmarshalOk(e) ==
    IF BlockDecodes
    THEN /\ e.called
         /\ e.val = Block
         /\ e.err = e.arg
         /\ e.took = FromNat(PrefixEnd(input, 1) + Len(Block))
    ELSE /\ ~e.called
         /\ e.err \in {"EOF", "ErrUnexpectedEOF", "overflow"}

\* C20: ReadBinary and ReadText read the length L, take the next L bytes and
\* hand exactly those to the unmarshal function, of which they return the
\* error; when the length does not decode or fewer than L bytes are left the
\* unmarshal function is not called and the error of the read is returned.
UnmarshalDelegated ==
    \A id \in opened :
        (Len(rlog[id]) >= 1 /\ rlog[id][1].op \in {"Binary", "Text"}) =>
            UnmarshalOk(rlog[id][1])

\* the part of C20 that holds: the reads that do not fault
UnmarshalDelegatedSound ==
    \A id \in opened :
        (/\ Len(rlog[id]) >= 1
         /\ rlog[id][1].op \in {"Binary", "Text"}
         /\ rlog[id][1].err # "panic") =>
            UnmarshalOk(rlog[id][1])

\* the sink of the last Reset among the first k entries of the log, the sink
\* the Writer was made over when there is none
RECURSIVE BoundAt(_)
BoundAt(k) ==
    IF k = 0 THEN "a" ELSE IF wlog[k].op = "Reset" THEN wlog[k].val ELSE BoundAt(k - 1)

\* the encodings of the writes among the first k entries of the log that were
\* made while sink t was the sink of the last Reset, one after the other
RECURSIVE Delivered(_, _)
Delivered(t, k) ==
    IF k = 0 THEN <<>>
    ELSE IF wlog[k].op # "Reset" /\ BoundAt(k) = t
         THEN Delivered(t, k - 1) \o Encoded(Val(wlog[k].op, wlog[k].val))
         ELSE Delivered(t, k - 1)

\* the length of the encodings of the writes after the last Reset
RECURSIVE SinceReset(_)
SinceReset(k) ==
    IF k = 0 \/ wlog[k].op = "Reset" THEN 0
    ELSE SinceReset(k - 1) + Len(Encoded(Val(wlog[k].op, wlog[k].val)))

\* C21: Reset(out) makes out the sink of the Writer and its Offset 0; every
\* write after it goes to out alone, the sink before it takes no more bytes
\* and keeps what it held, and the Offset counts the bytes written since the
\* Reset.
ResetRebinds ==
    /\ w.out = BoundAt(Len(wlog))
    /\ w.offset = SinceReset(Len(wlog))
    /\ \A t \in Targets : sinks[t].buffer = Delivered(t, Len(wlog))
    /\ \A k \in 1..Len(wlog) :
          IF wlog[k].op = "Reset" THEN wlog[k].to = 0
          ELSE /\ wlog[k].err = "nil"
               /\ wlog[k].from = SinceReset(k - 1)
               /\ wlog[k].to = SinceReset(k)

\* a write, a Reset to the other sink and a write: each sink holds one of them
ResetBetweenWrites ==
    /\ Len(wlog) = 3
    /\ wlog[1].op = "String"
    /\ wlog[2].op = "Reset"
    /\ wlog[2].val = "b"
    /\ wlog[2].from = 3
    /\ wlog[3].op = "Uint16"
    /\ sinks["a"].buffer = <<2, 104, 105>>
    /\ sinks["b"].buffer = <<1, 2>>
    /\ w.offset = 2

\* the calls among the first k entries of the log that the sink of the Writer
\* has as operations of its own
RECURSIVE Forwarded(_)
Forwarded(k) ==
    IF k = 0 THEN <<>>
    ELSE IF IsCall(wlog[k]) /\ Supports(sinks[w.out], wlog[k].op)
         THEN Append(Forwarded(k - 1), wlog[k].op)
         ELSE Forwarded(k - 1)

\* C22: Flush and Close call the Flush and the Close of the sink when it has
\* one and return what it returned; on a sink without the operation they
\* return nil and do nothing; neither hands bytes to the sink nor moves the
\* Offset.
ForwardsToSink ==
    /\ sinks[w.out].calls = Forwarded(Len(wlog))
    /\ \A k \in 1..Len(wlog) :
          IsCall(wlog[k]) =>
              /\ wlog[k].to = wlog[k].from
              /\ wlog[k].req = 0
              /\ wlog[k].acc = 0
              /\ wlog[k].err =
                    (IF /\ sinks[w.out].kind = "file"
                        /\ \E j \in 1..(k - 1) : wlog[j].op = "Close"
                     THEN "ErrClosed" ELSE "nil")

\* a file that was written to and closed was flushed: the Flush reached the
\* file and its error came back
FlushAfterClose ==
    /\ sinks[w.out].kind = "file"
    /\ Len(wlog) = 3
    /\ wlog[1].op = "String"
    /\ wlog[2].op = "Close"
    /\ wlog[2].err = "nil"
    /\ wlog[3].op = "Flush"
    /\ wlog[3].err = "ErrClosed"
    /\ sinks[w.out].calls = <<"Close", "Flush">>
    /\ w.offset = 3

\* the source of a Reader that makes the first k reads of Reader id with no
\* other Reader about, and what its k-th read returns
RECURSIVE AloneSrc(_, _)
RECURSIVE AloneRead(_, _)
AloneSrc(id, k) ==
    IF k = 0 THEN NewReader([type |-> "bytes.Buffer", data |-> sinks[w.out].buffer]).obj
    ELSE AloneRead(id, k).src

AloneRead(id, k) == ReadOp(AloneSrc(id, k - 1), [op |-> rlog[id][k].op, elem |-> rlog[id][k].arg])

\* C23: two Readers over the same backing bytes have cursors of their own:
\* however their reads interleave, each read returns the value and the error
\* and leaves the Offset it does when the Reader runs alone, and the backing
\* bytes stay what they were.
IndependentCursors ==
    /\ phase = "read" => input = sinks[w.out].buffer
    /\ \A id \in opened :
          /\ rd[id] = AloneSrc(id, Len(rlog[id]))
          /\ \A k \in 1..Len(rlog[id]) :
                /\ rlog[id][k].val = AloneRead(id, k).val
                /\ rlog[id][k].err = AloneRead(id, k).err
                /\ rlog[id][k].to = Offset(AloneSrc(id, k))
                /\ rlog[id][k].val = Written(wlog[k])

\* one Reader has read both values, the other, opened over the same bytes,
\* only the first
ReadersApart ==
    /\ opened = Readers
    /\ Len(wlog) = 2
    /\ wlog[1].op = "Uint32"
    /\ wlog[2].op = "String"
    /\ Len(rlog["slice"]) = 2
    /\ Len(rlog["stream"]) = 1
    /\ rd["slice"].offset = FromNat(7)
    /\ rd["stream"].offset = FromNat(4)
    /\ rd["stream"].buffer = rd["slice"].buffer

\* Slice(e.arg) with the cursor at e.from went as Slice is to go on a source
\* over the input
SliceOk(e) ==
    IF ~IsNeg(e.arg) /\ IsSmall(e.arg) /\ ToNat(e.from) + ToNat(e.arg) <= Len(input)
    THEN /\ e.err = "nil"
         /\ e.val = SubSeq(input, ToNat(e.from) + 1, ToNat(e.from) + ToNat(e.arg))
         /\ e.to = Add(e.from, e.arg)
         /\ e.mem = "buffer"
    ELSE /\ e.err = "EOF"
         /\ e.to = e.from

\* C24: on the materialized source, for every size n and every place of the
\* cursor, Slice(n) returns the next n bytes of the backing bytes and moves
\* the cursor by n when n bytes are left, and otherwise fails with io.EOF and
\* leaves the cursor; also for n about the largest int.
SliceExact ==
    \A k \in 1..Len(rlog["slice"]) :
        rlog["slice"][k].op = "Slice" => SliceOk(rlog["slice"][k])

\* the part of C24 that holds: the sizes n >= 0 for which cursor + n does
\* not pass the largest int
SliceExactSound ==
    \A k \in 1..Len(rlog["slice"]) :
        (/\ rlog["slice"][k].op = "Slice"
         /\ ~IsNeg(rlog["slice"][k].arg)
         /\ ~IsNeg(Add(rlog["slice"][k].from, rlog["slice"][k].arg))) =>
            SliceOk(rlog["slice"][k])

\* C25: the cursor of a materialized source is never below 0 and never beyond
\* the length of its buffer, and no read, whatever the input, leaves it lower
\* than it was.
CursorInBounds ==
    \A id \in opened :
        rd[id].kind = "slice" =>
            /\ ~IsNeg(rd[id].offset)
            /\ ~SLt(FromNat(Len(rd[id].buffer)), rd[id].offset)
            /\ \A k \in 1..Len(rlog[id]) : ~SLt(rlog[id][k].to, rlog[id][k].from)

\* the part of C25 that holds: the cursor of a source none of whose reads
\* faulted
CursorInBoundsSound ==
    \A id \in opened :
        (rd[id].kind = "slice" /\ ~rd[id].fault) =>
            /\ ~IsNeg(rd[id].offset)
            /\ ~SLt(FromNat(Len(rd[id].buffer)), rd[id].offset)
            /\ \A k \in 1..Len(rlog[id]) : ~SLt(rlog[id][k].to, rlog[id][k].from)

\* The position of the supplier of Reader id: the bytes taken out of it.
SupplierPos(id) == FromNat(Len(input) - Len(rd[id].sup))

\* C26: after any reads of a Reader, failed ones included, the position of its
\* supplier is the number of bytes the reads consumed, for a supplier wrapped
\* in a bufio.Reader and for a bytes.Buffer as for any other.
SupplierAtConsumed ==
    \A id \in opened : SupplierPos(id) = Consumed(id, Len(rlog[id]))

\* What holds instead: a supplier that is an io.ByteReader is where the reads
\* are, a wrapped one is ahead of them by what the bufio.Reader holds, and a
\* bytes.Buffer is where it was.
SupplierAtConsumedSound ==
    \A id \in opened :
        /\ rd[id].kind = "slice" => SupplierPos(id) = Zero
        /\ rd[id].kind = "stream" =>
              /\ SupplierPos(id) =
                    Add(Consumed(id, Len(rlog[id])), FromNat(Len(rd[id].bufd)))
              /\ ~rd[id].wrapped => rd[id].bufd = <<>>

\* C27: what Slice of a streaming source returns is a part of the scratch
\* buffer: after a following Slice that made no new buffer the earlier view
\* shows the bytes of the later one in its first places and its own bytes
\* after them; what ReadUint16, ReadUint32 and ReadUint64 return is a value of
\* its own, which no later read alters.
ScratchIsReused ==
    \A k \in 1..Len(rlog["stream"]) :
        LET e == rlog["stream"][k]
            last == rlog["stream"][Len(rlog["stream"])]
            c == Min(Len(e.val), Len(last.val))
        IN  /\ (e.op = "Slice" /\ e.err # "panic") => e.mem = "scratch"
            /\ (/\ e.op = "Slice" /\ e.err = "nil"
                 /\ k + 1 = Len(rlog["stream"])
                 /\ last.op = "Slice" /\ last.err = "nil" /\ last.had = last.has) =>
                    Held("stream", k) =
                        SubSeq(last.val, 1, c) \o SubSeq(e.val, c + 1, Len(e.val))
            /\ (e.op \in FixedReads /\ e.err = "nil") =>
                    /\ e.mem = "none"
                    /\ Held("stream", k) = e.val

\* Slice(3) returned three bytes, the Slice(2) after it made no new buffer, and
\* the earlier view no longer shows what it did
ViewOverwritten ==
    /\ Len(rlog["stream"]) = 2
    /\ rlog["stream"][1].op = "Slice" /\ rlog["stream"][1].arg = FromNat(3)
    /\ rlog["stream"][2].op = "Slice" /\ rlog["stream"][2].arg = FromNat(2)
    /\ rlog["stream"][1].err = "nil" /\ rlog["stream"][2].err = "nil"
    /\ rlog["stream"][2].had = rlog["stream"][2].has
    /\ Held("stream", 1) # rlog["stream"][1].val

\* the least power of two that is n or more, for n up to 2^63
LeastPow2(n) ==
    Pow2(CHOOSE k \in 0..63 : ~ULt(Pow2(k), n) /\ (k = 0 \/ ULt(Pow2(k - 1), n)))

\* the size that the read e asked of Slice
Asked(e) == CASE e.op = "Uint16" -> FromNat(2)
              [] e.op = "Uint32" -> FromNat(4)
              [] e.op = "Uint64" -> FromNat(8)
              [] OTHER -> e.arg

\* C28: the scratch buffer of a streaming source is made anew only by a
\* Slice(n) with n beyond its length, its length is never less than it was,
\* and after it was made anew for Slice(n) its length is the least power of
\* two that is n or more.
ScratchGrowth ==
    \A k \in 1..Len(rlog["stream"]) :
        LET e == rlog["stream"][k]
        IN  /\ e.has # e.had => SLt(e.had, Asked(e))
            /\ ~SLt(e.has, e.had)
            /\ e.has # e.had => e.has = LeastPow2(Asked(e))

\* What holds instead: the new length is the least power of two beyond n
\* (that is n + 1 or more) for n below 2^32, and 2^33 - 1 for n = 2^32.
ScratchGrowthSound ==
    \A k \in 1..Len(rlog["stream"]) :
        LET e == rlog["stream"][k]
        IN  /\ e.has # e.had <=> (SLt(e.had, Asked(e)) /\ e.err # "panic")
            /\ ~SLt(e.has, e.had)
            /\ (e.has # e.had /\ ULt(Asked(e), Pow2(32))) =>
                    e.has = LeastPow2(Inc(Asked(e)))
            /\ (e.has # e.had /\ Asked(e) = Pow2(32)) => e.has = Dec(Pow2(33))

\* the number that WriteVarint encodes for v: 2v, or -2v - 1 for a negative v
Mapped(v) == IF IsNeg(v) THEN Dec(Sub(Zero, Add(v, v))) ELSE Add(v, v)

\* the least k >= 1 with x < 2^(7k)
Groups(x) ==
    CHOOSE k \in 1..10 :
        /\ k = 10 \/ ULt(x, Pow2(7 * k))
        /\ k = 1 \/ ~ULt(x, Pow2(7 * (k - 1)))

\* C29: WriteUvarint(x) and WriteVarint(v) do not fault (the index into the
\* scratch array stays within 0..9) and emit 1 to 10 bytes, each but the last
\* with the bit 0x80 and the last without it; 0 is the single byte 0, and the
\* number of bytes is the least k >= 1 with x < 2^(7k), x being for
\* WriteVarint the number it encodes.
VarintShape ==
    \A k \in 1..Len(wlog) :
        wlog[k].op \in {"Uvarint", "Varint"} =>
            LET b == Emitted(k)
                x == IF wlog[k].op = "Varint" THEN Mapped(wlog[k].val) ELSE wlog[k].val
            IN  /\ wlog[k].err = "nil"
                /\ Len(w.scratch) = ScratchLen
                /\ Len(b) \in 1..10
                /\ Len(b) <= ScratchLen
                /\ \A i \in 1..(Len(b) - 1) : b[i] >= 128
                /\ b[Len(b)] < 128
                /\ wlog[k].val = Zero => b = <<0>>
                /\ Len(b) = Groups(x)

\* WriteUvarint(2^64 - 1) emitted ten bytes, WriteVarint(-2^63) as well
TenBytesEmitted ==
    /\ Len(wlog) = 1
    /\ wlog[1].op \in {"Uvarint", "Varint"}
    /\ wlog[1].val \in {AllOnes, Pow2(63)}
    /\ wlog[1].op = "Uvarint" <=> wlog[1].val = AllOnes
    /\ Len(Emitted(1)) = 10
    /\ Emitted(1)[10] = 1

\* the bytes from..to in the order they were written
Serial(from, to) == SeqOf([i \in 1..(to - from + 1) |-> from + i - 1], to - from + 1)

\* the shorter of a and b is the start of the longer
SameStart(a, b) ==
    \A i \in 1..Min(Len(a), Len(b)) : a[i] = b[i]

\* the reads of Reader id return the bytes the buffer held unread when the
\* Reader was made, then io.EOF
ReadsSnapshot(id) ==
    /\ rd[id].buffer = rlog[id][1].val
    /\ \A k \in 2..Len(rlog[id]) :
          IF ToNat(rlog[id][k].from) < Len(rlog[id][1].val)
          THEN /\ rlog[id][k].err = "nil"
               /\ rlog[id][k].val = FromByte(rlog[id][1].val[ToNat(rlog[id][k].from) + 1])
               /\ rlog[id][k].to = Inc(rlog[id][k].from)
          ELSE /\ rlog[id][k].err = "EOF"
               /\ rlog[id][k].to = rlog[id][k].from

\* reading through the Readers takes nothing out of the buffer, and two
\* Readers start at the same byte
BufferKept ==
    /\ Unread(sinks[w.out]) = Serial(sinks[w.out].drained + 1, sinks[w.out].written)
    /\ \A id \in opened : \A other \in opened :
          SameStart(rlog[id][1].val, rlog[other][1].val)

\* C30: a Reader over a bytes.Buffer reads the bytes the buffer held unread
\* when the Reader was made: its reads return those bytes and then io.EOF,
\* never a byte written to the buffer later; its reads take nothing out of the
\* buffer, so a Reader made later starts at the same byte.
SnapshotIsolated ==
    /\ BufferKept
    /\ \A id \in opened : ReadsSnapshot(id)

\* The part that holds: the Readers made while the read offset of the buffer
\* was 0.
SnapshotIsolatedSound ==
    /\ BufferKept
    /\ \A id \in opened : rlog[id][1].at = 0 => ReadsSnapshot(id)

====
